---- MODULE Spec2Model ----
(***************************************************************************)
(* Model of the quality-score engine of winvesta-tech/github-workflows:    *)
(* scripts/calculate_score.py (the scorer and its parsers' outputs).       *)
(*                                                                         *)
(* Python floats are IEEE-754 doubles.  The scorer rounds them (round(x,1),*)
(* round(x)), so the model carries doubles exactly: a double is a sign, a  *)
(* 53-bit mantissa held as a multi-limb natural, and a binary exponent.    *)
(***************************************************************************)
EXTENDS Integers, Sequences, FiniteSets, TLC

(***************************************************************************)
(* Multi-limb naturals: little-endian sequences of limbs in 0..Base-1,     *)
(* without leading (most significant) zero limbs; <<>> is zero.            *)
(* These, like the helpers of the doubles and of normpath below, are the   *)
(* arithmetic and library of Python itself, not lines of the repository.   *)
(***************************************************************************)
LimbBits == 15
Base == 32768

RECURSIVE Pow2(_)
Pow2(k) == IF k = 0 THEN 1 ELSE 2 * Pow2(k - 1)

Pow10(k) == IF k = 0 THEN 1 ELSE 10

RECURSIVE Zeros(_)
Zeros(k) == IF k = 0 THEN <<>> ELSE <<0>> \o Zeros(k - 1)

RECURSIVE BNorm(_)
BNorm(a) ==
  IF a = <<>> THEN a
  ELSE IF a[Len(a)] = 0 THEN BNorm(SubSeq(a, 1, Len(a) - 1)) ELSE a

RECURSIVE BFromInt(_)
BFromInt(n) == IF n = 0 THEN <<>> ELSE <<n % Base>> \o BFromInt(n \div Base)

RECURSIVE BToInt(_)
BToInt(a) == IF a = <<>> THEN 0 ELSE a[1] + Base * BToInt(Tail(a))

RECURSIVE BMulCarry(_, _, _)
BMulCarry(a, k, c) ==
  IF a = <<>> THEN BFromInt(c)
  ELSE <<(a[1] * k + c) % Base>>
         \o BMulCarry(Tail(a), k, (a[1] * k + c) \div Base)

BMulSmall(a, k) == IF k = 0 THEN <<>> ELSE BMulCarry(a, k, 0)

(* one step of the long division by d: hi is the quotient and remainder of
   the higher limbs *)
BDivStep(hi, limb, d) ==
  [q |-> <<(hi.r * Base + limb) \div d>> \o hi.q,
   r |-> (hi.r * Base + limb) % d]

RECURSIVE BDivRem(_, _)
BDivRem(a, d) ==
  IF a = <<>> THEN [q |-> <<>>, r |-> 0]
  ELSE BDivStep(BDivRem(Tail(a), d), a[1], d)

Limb(a) == IF a = <<>> THEN 0 ELSE a[1]
Rest(a) == IF a = <<>> THEN a ELSE Tail(a)

RECURSIVE BAddC(_, _, _)
BAddC(a, b, c) ==
  IF a = <<>> /\ b = <<>> THEN BFromInt(c)
  ELSE <<(Limb(a) + Limb(b) + c) % Base>>
         \o BAddC(Rest(a), Rest(b), (Limb(a) + Limb(b) + c) \div Base)

BAdd(a, b) == BAddC(a, b, 0)

RECURSIVE BSubB(_, _, _)
BSubB(a, b, br) ==
  IF a = <<>> THEN <<>>
  ELSE <<(a[1] - Limb(b) - br + Base) % Base>>
         \o BSubB(Tail(a), Rest(b), IF a[1] - Limb(b) - br < 0 THEN 1 ELSE 0)

BSub(a, b) == BNorm(BSubB(a, b, 0))

RECURSIVE BCmpAt(_, _, _)
BCmpAt(a, b, i) ==
  IF i = 0 THEN 0
  ELSE IF a[i] > b[i] THEN 1
  ELSE IF a[i] < b[i] THEN -1
  ELSE BCmpAt(a, b, i - 1)

BCmp(a, b) ==
  IF Len(a) > Len(b) THEN 1
  ELSE IF Len(a) < Len(b) THEN -1
  ELSE BCmpAt(a, b, Len(a))

RECURSIVE IntBitLen(_)
IntBitLen(n) == IF n = 0 THEN 0 ELSE 1 + IntBitLen(n \div 2)

BBitLen(a) ==
  IF a = <<>> THEN 0 ELSE LimbBits * (Len(a) - 1) + IntBitLen(a[Len(a)])

BShl(a, k) ==
  IF a = <<>> THEN a
  ELSE Zeros(k \div LimbBits) \o BMulSmall(a, Pow2(k % LimbBits))

BShr(a, k) ==
  IF Len(a) <= k \div LimbBits THEN <<>>
  ELSE BNorm(BDivRem(SubSeq(a, k \div LimbBits + 1, Len(a)),
                     Pow2(k % LimbBits)).q)

(* q = floor(a / 2^k): q + 1 if the remainder is above the half, or is the
   half and q is odd; else q *)
BRoundQuotient(q, a, k, c) ==
  IF c > 0 \/ (c = 0 /\ q # <<>> /\ q[1] % 2 = 1) THEN BAdd(q, <<1>>) ELSE q

BRoundFrom(q, a, k) ==
  BRoundQuotient(q, a, k, BCmp(BSub(a, BShl(q, k)), BShl(<<1>>, k - 1)))

(* a / 2^k rounded to the nearest natural, ties to even *)
BShrRound(a, k) == IF k = 0 THEN a ELSE BRoundFrom(BShr(a, k), a, k)

(***************************************************************************)
(* IEEE-754 binary64 (no subnormals, infinities or NaN: the scorer's       *)
(* values stay far from both ends of the exponent range).                  *)
(* [neg, m, e] is (-1)^neg * m * 2^e with m of exactly MantBits bits,      *)
(* or zero.                                                                *)
(***************************************************************************)
MantBits == 53

FZero == [neg |-> FALSE, m |-> <<>>, e |-> 0]

(* q * 2^E with q already rounded to MantBits bits, or to 2^MantBits *)
FRenorm(neg, q, E) ==
  IF BBitLen(q) > MantBits
  THEN [neg |-> neg, m |-> BShr(q, 1), e |-> E + 1]
  ELSE [neg |-> neg, m |-> q, e |-> E]

FRoundLen(neg, M, E, L) ==
  IF L <= MantBits
  THEN [neg |-> neg, m |-> BShl(M, MantBits - L), e |-> E - (MantBits - L)]
  ELSE FRenorm(neg, BShrRound(M, L - MantBits), E + (L - MantBits))

(* the double nearest to M * 2^E, ties to even *)
FRound(neg, M, E) ==
  IF M = <<>> THEN FZero ELSE FRoundLen(neg, M, E, BBitLen(M))

(* float(n) for an int n *)
FFromInt(n) == FRound(n < 0, BFromInt(IF n < 0 THEN -n ELSE n), 0)

FNeg(a) == IF a.m = <<>> THEN a ELSE [a EXCEPT !.neg = ~a.neg]

(* the quotient qr.q with a sticky bit for a non-zero remainder, rounded *)
FRoundQuotient(neg, qr, E) ==
  FRound(neg,
         BAdd(BMulSmall(BNorm(qr.q), 2), IF qr.r > 0 THEN <<1>> ELSE <<>>),
         E)

(* a / d for a positive int d < Base, rounded once *)
FDivSmall(a, d) ==
  IF a.m = <<>> THEN FZero
  ELSE FRoundQuotient(a.neg, BDivRem(BShl(a.m, 2 * LimbBits), d),
                      a.e - 2 * LimbBits - 1)

(* a * k for an int 0 <= k < Base *)
FMulSmall(a, k) == FRound(a.neg, BMulSmall(a.m, k), a.e)

MinInt(x, y) == IF x < y THEN x ELSE y

(* the mantissa of a at exponent e0 <= a.e *)
Aligned(a, e0) == BShl(a.m, a.e - e0)

FCmpMag(a, b) ==
  IF a.m = <<>> THEN (IF b.m = <<>> THEN 0 ELSE -1)
  ELSE IF b.m = <<>> THEN 1
  ELSE BCmp(Aligned(a, MinInt(a.e, b.e)), Aligned(b, MinInt(a.e, b.e)))

FCmp(a, b) ==
  IF a.neg /\ b.neg THEN FCmpMag(b, a)
  ELSE IF a.neg THEN -1
  ELSE IF b.neg THEN 1
  ELSE FCmpMag(a, b)

FGe(a, b) == FCmp(a, b) >= 0
FLt(a, b) == FCmp(a, b) < 0
FGt(a, b) == FCmp(a, b) > 0

FAddMag(neg, a, b) ==
  IF a.m = <<>> THEN [b EXCEPT !.neg = neg /\ b.m # <<>>]
  ELSE IF b.m = <<>> THEN [a EXCEPT !.neg = neg]
  ELSE FRound(neg,
              BAdd(Aligned(a, MinInt(a.e, b.e)), Aligned(b, MinInt(a.e, b.e))),
              MinInt(a.e, b.e))

(* |a| - |b| with |a| >= |b| *)
FSubMag(neg, a, b) ==
  IF b.m = <<>> THEN [a EXCEPT !.neg = neg /\ a.m # <<>>]
  ELSE FRound(neg,
              BSub(Aligned(a, MinInt(a.e, b.e)), Aligned(b, MinInt(a.e, b.e))),
              MinInt(a.e, b.e))

FAdd(a, b) ==
  IF a.neg = b.neg THEN FAddMag(a.neg, a, b)
  ELSE IF FCmpMag(a, b) >= 0 THEN FSubMag(a.neg, a, b)
  ELSE FSubMag(b.neg, b, a)

FSub(a, b) == FAdd(a, FNeg(b))

(* |a| * 10^k (k = 0 or 1) rounded to the nearest natural, ties to even *)
ScaledMag(a, k) ==
  BToInt(IF a.e >= 0 THEN BShl(BMulSmall(a.m, Pow10(k)), a.e)
         ELSE BShrRound(BMulSmall(a.m, Pow10(k)), -a.e))

Signed(neg, n) == IF neg THEN -n ELSE n

(* the value of a in tenths, rounded to the nearest integer, ties to even *)
Tenths(a) == IF a.m = <<>> THEN 0 ELSE Signed(a.neg, ScaledMag(a, 1))

(* Python round(x, 1) of a float: the exact binary value correctly rounded
   to one decimal, read back as the nearest double *)
PyRound1(a) == FDivSmall(FFromInt(Tenths(a)), 10)

(* Python round(x) of a float: an int, ties to even *)
PyRound(a) == IF a.m = <<>> THEN 0 ELSE Signed(a.neg, ScaledMag(a, 0))

(* json.load of a decimal literal with two (one) fractional digits *)
JsonHundredths(h) == FDivSmall(FFromInt(h), 100)
JsonTenths(t) == FDivSmall(FFromInt(t), 10)


(***************************************************************************)
(* scripts/calculate_score.py: the scorer.                                 *)
(***************************************************************************)
MaxInt(x, y) == IF x > y THEN x ELSE y

(* mutant: the whole list is kept *)
Prefix_all(s, n) == s

(* Python's s[:n] *)
Prefix(s, n) == SubSeq(s, 1, MinInt(n, Len(s)))

(* the "N/A" the report carries for an e2e metric that is not scored *)
NA == -1

(* mutant: the (score, penalty) pair returned in the wrong order *)
calculate_complexity_score_swapped(issues, max_points) ==
  LET penalty_per_issue == 4
      penalty == MinInt(max_points, Len(issues) * penalty_per_issue)
      score   == max_points - penalty
  IN  [score |-> penalty, penalty |-> MaxInt(0, score)]

calculate_complexity_score(issues, max_points) ==
  LET penalty_per_issue == 4
      penalty == MinInt(max_points, Len(issues) * penalty_per_issue)
      score   == max_points - penalty
  IN  [score |-> MaxInt(0, score), penalty |-> penalty]

(* mutant: the complexity weight used for smells *)
calculate_smells_score_weight4(issues, max_points) ==
  LET penalty_per_issue == 4
      penalty == MinInt(max_points, Len(issues) * penalty_per_issue)
      score   == max_points - penalty
  IN  [score |-> MaxInt(0, score), penalty |-> penalty]

calculate_smells_score(issues, max_points) ==
  LET penalty_per_issue == 3
      penalty == MinInt(max_points, Len(issues) * penalty_per_issue)
      score   == max_points - penalty
  IN  [score |-> MaxInt(0, score), penalty |-> penalty]

(* percentage is a double; min() and max() keep their first argument unless
   the second is strictly smaller (larger) *)
calculate_duplication_score(percentage, max_points) ==
  LET scaled  == FMulSmall(percentage, 1)
      penalty == IF FLt(scaled, FFromInt(max_points)) THEN scaled
                 ELSE FFromInt(max_points)
      score   == FSub(FFromInt(max_points), penalty)
      rounded == PyRound1(score)
  IN  [score   |-> IF FGt(rounded, FZero) THEN rounded ELSE FZero,
       penalty |-> PyRound1(penalty)]

(* mutant: strict comparisons, so a band's lower edge falls in the band below *)
calculate_coverage_score_strict(percentage, max_points) ==
  IF FGt(percentage, FFromInt(80)) THEN max_points
  ELSE IF FGt(percentage, FFromInt(60)) THEN 15
  ELSE IF FGt(percentage, FFromInt(40)) THEN 10
  ELSE IF FGt(percentage, FFromInt(20)) THEN 5
  ELSE 0

(* mutant: the 15 and 5 bands exchanged *)
calculate_coverage_score_swapped(percentage, max_points) ==
  IF FGe(percentage, FFromInt(80)) THEN max_points
  ELSE IF FGe(percentage, FFromInt(60)) THEN 5
  ELSE IF FGe(percentage, FFromInt(40)) THEN 10
  ELSE IF FGe(percentage, FFromInt(20)) THEN 15
  ELSE 0

calculate_coverage_score(percentage, max_points) ==
  IF FGe(percentage, FFromInt(80)) THEN max_points
  ELSE IF FGe(percentage, FFromInt(60)) THEN 15
  ELSE IF FGe(percentage, FFromInt(40)) THEN 10
  ELSE IF FGe(percentage, FFromInt(20)) THEN 5
  ELSE 0

(* mutant: the 95% edge excluded from the 8-point band *)
calculate_test_results_score_strict(passed, failed, max_points) ==
  LET total == passed + failed
  IN  IF total = 0 THEN 0
      ELSE LET pass_rate == FMulSmall(FDivSmall(FFromInt(passed), total), 100)
           IN  IF FCmp(pass_rate, FFromInt(100)) = 0 THEN max_points
               ELSE IF FGt(pass_rate, FFromInt(95)) THEN 8
               ELSE IF FGe(pass_rate, FFromInt(80)) THEN 5
               ELSE 0

calculate_test_results_score(passed, failed, max_points) ==
  LET total == passed + failed
  IN  IF total = 0 THEN 0
      ELSE LET pass_rate == FMulSmall(FDivSmall(FFromInt(passed), total), 100)
           IN  IF FCmp(pass_rate, FFromInt(100)) = 0 THEN max_points
               ELSE IF FGe(pass_rate, FFromInt(95)) THEN 8
               ELSE IF FGe(pass_rate, FFromInt(80)) THEN 5
               ELSE 0

(* config.get("e2e", {}).get("required", False) *)
ConfigE2eRequired(cfg) == cfg.e2e_required = "true"

(* the same expression raises AttributeError when config is not a mapping,
   or when the value under "e2e" is not one (null, a scalar) *)
calculate_score_raises(cfg) == cfg.kind # "mapping" \/ cfg.e2e # "mapping"

(* mutant: presence alone earns the credit *)
unit_tests_score_of_presence(td) ==
  IF td.unit_tests_found THEN 20 ELSE 0

unit_tests_score_of(td) ==
  IF td.unit_tests_found /\ td.tests_failed = 0 THEN 20 ELSE 0

(* mutant: an e2e metric that is not required scores as a required one *)
e2e_score_of_always(e2e_required, td) ==
  IF td.e2e_tests_found THEN 10 ELSE 0

e2e_score_of(e2e_required, td) ==
  IF e2e_required THEN (IF td.e2e_tests_found THEN 10 ELSE 0) ELSE NA

(* mutant: the e2e points stay in the denominator when not required *)
test_presence_max_of_fixed(e2e_required) == 30

test_presence_max_of(e2e_required) == IF e2e_required THEN 30 ELSE 20

final_score_of(total_earned, total_max) ==
  IF total_max > 0
  THEN PyRound(FMulSmall(FDivSmall(total_earned, total_max), 100))
  ELSE 0

calculate_score(cfg, files, ruff, eslint, swiftlint, detekt, jscpd, td, thr) ==
  LET all_complexity_issues ==
        ruff.complexity_issues \o eslint.complexity_issues
          \o swiftlint.complexity_issues \o detekt.complexity_issues
      all_smell_issues ==
        ruff.smell_issues \o eslint.smell_issues
          \o swiftlint.smell_issues \o detekt.smell_issues
      cx  == calculate_complexity_score(all_complexity_issues, 15)
      sm  == calculate_smells_score(all_smell_issues, 15)
      dup == calculate_duplication_score(JsonHundredths(jscpd.percentage), 10)
      code_quality_total == FAdd(FFromInt(cx.score + sm.score), dup.score)
      code_quality_max   == 40
      coverage_score ==
        calculate_coverage_score(JsonTenths(td.coverage_percentage), 20)
      test_results_score ==
        calculate_test_results_score(td.tests_passed, td.tests_failed, 10)
      test_health_total == coverage_score + test_results_score
      test_health_max   == 30
      e2e_required      == ConfigE2eRequired(cfg)
      unit_tests_score  == unit_tests_score_of(td)
      e2e_score         == e2e_score_of(e2e_required, td)
      test_presence_max == test_presence_max_of(e2e_required)
      test_presence_total ==
        unit_tests_score + (IF e2e_score # NA THEN e2e_score ELSE 0)
      total_earned ==
        FAdd(FAdd(code_quality_total, FFromInt(test_health_total)),
             FFromInt(test_presence_total))
      total_max == code_quality_max + test_health_max + test_presence_max
      final_score == final_score_of(total_earned, total_max)
  IN  [final_score |-> final_score,
       threshold   |-> thr,
       passed      |-> final_score >= thr,
       breakdown   |->
         [code_quality |->
            [total |-> PyRound1(code_quality_total),
             max   |-> code_quality_max,
             complexity |->
               [score |-> cx.score, max |-> 15, penalty |-> cx.penalty,
                issues_count |-> Len(all_complexity_issues),
                issues |-> Prefix(all_complexity_issues, 10)],
             smells |->
               [score |-> sm.score, max |-> 15, penalty |-> sm.penalty,
                issues_count |-> Len(all_smell_issues),
                issues |-> Prefix(all_smell_issues, 10)],
             duplication |->
               [score |-> dup.score, max |-> 10, penalty |-> dup.penalty,
                percentage |-> jscpd.percentage,
                duplications |-> Prefix(jscpd.duplications, 5)]],
          test_health |->
            [total |-> test_health_total,
             max   |-> test_health_max,
             coverage |->
               [score |-> coverage_score, max |-> 20,
                percentage |-> td.coverage_percentage,
                total_lines |-> td.coverage_total_lines,
                covered_lines |-> td.coverage_covered_lines,
                by_file |-> td.coverage_by_file,
                uncovered_functions |-> Prefix(td.uncovered_functions, 10)],
             results |->
               [score |-> test_results_score, max |-> 10,
                tests_run |-> td.tests_run,
                tests_passed |-> td.tests_passed,
                tests_failed |-> td.tests_failed,
                tests_skipped |-> td.tests_skipped,
                failures |-> Prefix(td.failures_details, 5)]],
          test_presence |->
            [total |-> test_presence_total,
             max   |-> test_presence_max,
             unit_tests |->
               [score |-> unit_tests_score, max |-> 20,
                found |-> td.unit_tests_found,
                count |-> td.unit_tests_count,
                files |-> Prefix(td.unit_test_files, 10)],
             e2e |->
               [score |-> e2e_score,
                max |-> IF e2e_required THEN 10 ELSE NA,
                required |-> e2e_required,
                found |-> td.e2e_tests_found,
                count |-> td.e2e_tests_count]]],
       raw_data |->
         [total_linter_issues |->
            ruff.total_issues + eslint.total_issues
              + swiftlint.total_issues + detekt.total_issues,
          complexity_issues_count |-> Len(all_complexity_issues),
          smell_issues_count |-> Len(all_smell_issues),
          duplication_percentage |-> jscpd.percentage,
          duplication_lines |-> jscpd.duplicated_lines,
          coverage_percentage |-> td.coverage_percentage,
          tests_total |-> td.tests_run,
          tests_passed |-> td.tests_passed,
          tests_failed |-> td.tests_failed],
       files_analyzed |-> files,
       files_count    |-> Len(files)]

(***************************************************************************)
(* scripts/run_tests.py: paths and the changed-file correlation.  A path   *)
(* is a string; Python's str methods are written with SubSeq.              *)
(***************************************************************************)
startswith(s, t) == Len(t) <= Len(s) /\ SubSeq(s, 1, Len(t)) = t

endswith(s, t) ==
  Len(t) <= Len(s) /\ SubSeq(s, Len(s) - Len(t) + 1, Len(s)) = t

(* Python's "t in s" for strings *)
contains(s, t) ==
  \E i \in 0..(Len(s) - Len(t)) : SubSeq(s, i + 1, i + Len(t)) = t

(* s.split("/"): cur is the component being read, acc those already read *)
RECURSIVE SplitSlash(_, _, _)
SplitSlash(s, cur, acc) ==
  IF s = "" THEN Append(acc, cur)
  ELSE IF Head(s) = "/" THEN SplitSlash(Tail(s), "", Append(acc, cur))
  ELSE SplitSlash(Tail(s), cur \o Head(s), acc)

(* "/".join(comps) *)
RECURSIVE JoinSlash(_)
JoinSlash(comps) ==
  IF comps = <<>> THEN ""
  ELSE IF Len(comps) = 1 THEN comps[1]
  ELSE comps[1] \o "/" \o JoinSlash(Tail(comps))

(* posixpath.normpath: 1 or 2 leading slashes are kept, 3 or more are 1 *)
InitialSlashes(path) ==
  IF ~startswith(path, "/") THEN 0
  ELSE IF startswith(path, "//") /\ ~startswith(path, "///") THEN 2
  ELSE 1

(* the loop of posixpath.normpath over the components *)
RECURSIVE NormComps(_, _, _)
NormComps(comps, initial_slashes, new_comps) ==
  IF comps = <<>> THEN new_comps
  ELSE IF Head(comps) \in {"", "."}
  THEN NormComps(Tail(comps), initial_slashes, new_comps)
  ELSE IF \/ Head(comps) # ".."
          \/ (initial_slashes = 0 /\ new_comps = <<>>)
          \/ (new_comps # <<>> /\ new_comps[Len(new_comps)] = "..")
  THEN NormComps(Tail(comps), initial_slashes, Append(new_comps, Head(comps)))
  ELSE IF new_comps # <<>>
  THEN NormComps(Tail(comps), initial_slashes,
                 SubSeq(new_comps, 1, Len(new_comps) - 1))
  ELSE NormComps(Tail(comps), initial_slashes, new_comps)

Slashes(n) == IF n = 0 THEN "" ELSE IF n = 1 THEN "/" ELSE "//"

DotIfEmpty(path) == IF path = "" THEN "." ELSE path

normpath(path) ==
  IF path = "" THEN "."
  ELSE DotIfEmpty(
         Slashes(InitialSlashes(path))
           \o JoinSlash(NormComps(SplitSlash(path, "", <<>>),
                                  InitialSlashes(path), <<>>)))

(* changed_normalized = set(os.path.normpath(f) for f in changed_files) *)
ChangedNormalized(files) == {normpath(files[i]) : i \in 1..Len(files)}

(* mutant: only a reported path that ends with the changed path correlates *)
IsChanged_suffix_only(filename, changed_normalized) ==
  \E cf \in changed_normalized : endswith(normpath(filename), cf)

(* the is_changed loop of the three coverage parsers *)
IsChanged(filename, changed_normalized) ==
  \E cf \in changed_normalized :
    \/ endswith(normpath(filename), cf)
    \/ endswith(cf, normpath(filename))
    \/ contains(cf, filename)
    \/ contains(filename, cf)

(***************************************************************************)
(* scripts/run_tests.py: the coverage parsers.                             *)
(*                                                                         *)
(* A coverage artifact is [path, format, body]: format is what the file    *)
(* holds ("xml", "lcov", "json", "garbage" for a file no parser can read,  *)
(* "absent" for no file) and body its content: for "lcov" the lines, for   *)
(* "xml" the class elements, for "json" the per-file entries.  A hit count *)
(* is [ok, n]: ok is FALSE for a count that is not an integer.             *)
(* Percentages are in tenths, as round(x, 1) leaves them.                  *)
(***************************************************************************)
Hit(n) == [ok |-> TRUE, n |-> n]
BadHit == [ok |-> FALSE, n |-> 0]

AbsentDoc == [path |-> "", format |-> "absent", body |-> <<>>]

(* the result record each coverage parser starts from *)
CoverageDefault ==
  [total_lines |-> 0, covered_lines |-> 0, percentage |-> 0,
   by_file |-> <<>>, uncovered_functions |-> <<>>]

(* round((covered / total) * 100, 1), in tenths; total > 0 *)
CoveragePercentage(covered, total) ==
  Tenths(FMulSmall(FDivSmall(FFromInt(covered), total), 100))

(* the number of hit counts above zero *)
RECURSIVE CountCovered(_)
CountCovered(hits) ==
  IF hits = <<>> THEN 0
  ELSE (IF Head(hits).n > 0 THEN 1 ELSE 0) + CountCovered(Tail(hits))

AllOk(hits) == \A i \in 1..Len(hits) : hits[i].ok

(* mutant: the entry is added a second time, as for a second changed file
   it correlates with *)
AddFile_twice(res, file, file_total, file_covered) ==
  [res EXCEPT !.total_lines = @ + 2 * file_total,
              !.covered_lines = @ + 2 * file_covered,
              !.by_file = @ \o
                [i \in 1..2 |-> [file |-> file,
                                 total_lines |-> file_total,
                                 covered_lines |-> file_covered,
                                 coverage |-> CoveragePercentage(
                                                file_covered, file_total)]]]

(* result["total_lines"] += ...; result["by_file"].append({...}) *)
AddFile(res, file, file_total, file_covered) ==
  [res EXCEPT !.total_lines = @ + file_total,
              !.covered_lines = @ + file_covered,
              !.by_file = Append(@, [file |-> file,
                                     total_lines |-> file_total,
                                     covered_lines |-> file_covered,
                                     coverage |-> CoveragePercentage(
                                                    file_covered, file_total)])]

(* mutant: the percentage is left at its default *)
SetPercentage_never(res) == res

(* the closing "if result["total_lines"] > 0" of each parser *)
SetPercentage(res) ==
  IF res.total_lines > 0
  THEN [res EXCEPT !.percentage =
                     CoveragePercentage(res.covered_lines, res.total_lines)]
  ELSE res

(* a parser's loop state: the result so far, and whether an exception left
   the try block *)
Running(res) == [result |-> res, raised |-> FALSE]
Raised(res)  == [result |-> res, raised |-> TRUE]

(* mutant: an exception discards what the loop had added *)
Finish_reset(st) ==
  IF st.raised THEN CoverageDefault ELSE SetPercentage(st.result)

(* the end of a parser: after an exception the except clause only prints,
   and the result is returned as the loop left it *)
Finish(st) == IF st.raised THEN st.result ELSE SetPercentage(st.result)

(* ---- parse_cobertura_xml ---- *)

(* the line elements cls.findall(".//line") returns: those of the methods,
   then the class's own *)
RECURSIVE MethodLines(_)
MethodLines(methods) ==
  IF methods = <<>> THEN <<>>
  ELSE Head(methods).lines \o MethodLines(Tail(methods))

ClassLines(cls) == MethodLines(cls.methods) \o cls.lines

HasZeroHit(hits) == \E i \in 1..Len(hits) : hits[i].n = 0

(* f"{filename}:{method_line} ({method_name})": line is the attribute's
   text, "?" when the element has none *)
FunctionId(file, line, name) == file \o ":" \o line \o " (" \o name \o ")"

(* the identifiers one method adds when every line of zero hits adds one *)
RECURSIVE ZeroHitIds(_, _)
ZeroHitIds(id, hits) ==
  IF hits = <<>> THEN <<>>
  ELSE (IF Head(hits).n = 0 THEN <<id>> ELSE <<>>) \o ZeroHitIds(id, Tail(hits))

(* mutant: no break after the first line of zero hits *)
RECURSIVE UncoveredMethods_every_line(_, _)
UncoveredMethods_every_line(filename, methods) ==
  IF methods = <<>> THEN <<>>
  ELSE ZeroHitIds(FunctionId(filename, Head(methods).line, Head(methods).name),
                  Head(methods).lines)
       \o UncoveredMethods_every_line(filename, Tail(methods))

(* lines 156-162: the identifiers of the methods with a line of zero hits *)
RECURSIVE UncoveredMethods(_, _)
UncoveredMethods(filename, methods) ==
  IF methods = <<>> THEN <<>>
  ELSE (IF HasZeroHit(Head(methods).lines)
        THEN <<FunctionId(filename, Head(methods).line, Head(methods).name)>>
        ELSE <<>>)
       \o UncoveredMethods(filename, Tail(methods))

CoberturaAdd(res, cls, hits) ==
  IF Len(hits) > 0
  THEN [AddFile(res, cls.filename, Len(hits), CountCovered(hits))
          EXCEPT !.uncovered_functions =
                   @ \o UncoveredMethods(cls.filename, cls.methods)]
  ELSE res

CoberturaClass(cls, cn, res) ==
  IF ~IsChanged(cls.filename, cn) THEN Running(res)
  ELSE IF ~AllOk(ClassLines(cls)) THEN Raised(res)
  ELSE Running(CoberturaAdd(res, cls, ClassLines(cls)))

RECURSIVE CoberturaLoop(_, _, _)
CoberturaLoop(classes, cn, st) ==
  IF classes = <<>> \/ st.raised THEN st
  ELSE CoberturaLoop(Tail(classes), cn,
                     CoberturaClass(Head(classes), cn, st.result))

parse_cobertura_xml(doc, changed) ==
  IF doc.format # "xml" THEN CoverageDefault
  ELSE Finish(CoberturaLoop(doc.body, ChangedNormalized(changed),
                            Running(CoverageDefault)))

(* ---- parse_lcov ---- *)
LcovSF(path) == [tag |-> "SF", path |-> path, parts |-> 0, hits |-> Hit(0)]
LcovDA(hits) == [tag |-> "DA", path |-> "", parts |-> 2, hits |-> hits]
LcovEnd == [tag |-> "end_of_record", path |-> "", parts |-> 0, hits |-> Hit(0)]

(* the loop's locals: current_file ("" also stands for None: only its
   truth value is read), file_total, file_covered *)
LcovStart ==
  [current_file |-> "", file_total |-> 0, file_covered |-> 0,
   result |-> CoverageDefault, raised |-> FALSE]

LcovCommit(st, cn) ==
  IF IsChanged(st.current_file, cn) /\ st.file_total > 0
  THEN [st EXCEPT !.result = AddFile(@, st.current_file, st.file_total,
                                     st.file_covered),
                  !.current_file = ""]
  ELSE [st EXCEPT !.current_file = ""]

(* mutant: an SF: line keeps the counts of the lines before it *)
LcovLine_no_reset(line, cn, st) ==
  IF line.tag = "SF"
  THEN [st EXCEPT !.current_file = line.path]
  ELSE IF line.tag = "DA"
  THEN (IF line.parts < 2 THEN st
        ELSE IF ~line.hits.ok THEN [st EXCEPT !.raised = TRUE]
        ELSE [st EXCEPT !.file_total = @ + 1,
                        !.file_covered =
                          @ + (IF line.hits.n > 0 THEN 1 ELSE 0)])
  ELSE IF line.tag = "end_of_record" /\ st.current_file # ""
  THEN LcovCommit(st, cn)
  ELSE st

LcovLine(line, cn, st) ==
  IF line.tag = "SF"
  THEN [st EXCEPT !.current_file = line.path, !.file_total = 0,
                  !.file_covered = 0]
  ELSE IF line.tag = "DA"
  THEN (IF line.parts < 2 THEN st
        ELSE IF ~line.hits.ok THEN [st EXCEPT !.raised = TRUE]
        ELSE [st EXCEPT !.file_total = @ + 1,
                        !.file_covered =
                          @ + (IF line.hits.n > 0 THEN 1 ELSE 0)])
  ELSE IF line.tag = "end_of_record" /\ st.current_file # ""
  THEN LcovCommit(st, cn)
  ELSE st

RECURSIVE LcovLoop(_, _, _)
LcovLoop(lines, cn, st) ==
  IF lines = <<>> \/ st.raised THEN st
  ELSE LcovLoop(Tail(lines), cn, LcovLine(Head(lines), cn, st))

parse_lcov(doc, changed) ==
  IF doc.format # "lcov" THEN CoverageDefault
  ELSE Finish(LcovLoop(doc.body, ChangedNormalized(changed), LcovStart))

(* ---- parse_istanbul_json ---- *)

(* the functions with zero hits that fnMap names *)
RECURSIVE UncoveredFunctions(_, _)
UncoveredFunctions(file_path, fns) ==
  IF fns = <<>> THEN <<>>
  ELSE (IF Head(fns).hits = 0 /\ Head(fns).mapped
        THEN <<FunctionId(file_path, Head(fns).line, Head(fns).name)>>
        ELSE <<>>)
       \o UncoveredFunctions(file_path, Tail(fns))

IstanbulAdd(res, entry) ==
  IF Len(entry.s) > 0
  THEN [AddFile(res, entry.path, Len(entry.s), CountCovered(entry.s))
          EXCEPT !.uncovered_functions =
                   @ \o UncoveredFunctions(entry.path, entry.f)]
  ELSE res

IstanbulEntry(entry, cn, res) ==
  IF ~IsChanged(entry.path, cn) THEN Running(res)
  ELSE IF ~AllOk(entry.s) THEN Raised(res)
  ELSE Running(IstanbulAdd(res, entry))

RECURSIVE IstanbulLoop(_, _, _)
IstanbulLoop(entries, cn, st) ==
  IF entries = <<>> \/ st.raised THEN st
  ELSE IstanbulLoop(Tail(entries), cn,
                    IstanbulEntry(Head(entries), cn, st.result))

parse_istanbul_json(doc, changed) ==
  IF doc.format # "json" THEN CoverageDefault
  ELSE Finish(IstanbulLoop(doc.body, ChangedNormalized(changed),
                           Running(CoverageDefault)))

(* mutant: the extension alone chooses the parser *)
ParserFor_extension(path) ==
  IF endswith(path, ".xml") THEN "cobertura"
  ELSE IF endswith(path, ".info") THEN "lcov"
  ELSE IF endswith(path, ".json") THEN "istanbul"
  ELSE "none"

(* run_tests, lines 431-436 and 443-450: the parser chosen from the name of
   the coverage file; "none" when no branch matches *)
ParserFor(path) ==
  IF endswith(path, ".xml") THEN "cobertura"
  ELSE IF endswith(path, ".info") \/ contains(path, "lcov") THEN "lcov"
  ELSE IF endswith(path, ".json") THEN "istanbul"
  ELSE "none"

ParseWith(parser, doc, changed) ==
  IF parser = "cobertura" THEN parse_cobertura_xml(doc, changed)
  ELSE IF parser = "lcov" THEN parse_lcov(doc, changed)
  ELSE IF parser = "istanbul" THEN parse_istanbul_json(doc, changed)
  ELSE CoverageDefault

(***************************************************************************)
(* scripts/run_tests.py: test execution.                                   *)
(*                                                                         *)
(* The text a test command prints is [summary, failure_lines]: summary is  *)
(* the sequence of its "<n> <word>" places in order, each [n, word, gap,   *)
(* tests_prefix] with gap "space" for exactly one space between number and *)
(* word ("wide" for other whitespace) and tests_prefix for "Tests:" and    *)
(* whitespace right before the number; failure_lines counts the matches of *)
(* the three failure patterns.                                             *)
(***************************************************************************)
Token(n, word, gap, tests_prefix) ==
  [n |-> n, word |-> word, gap |-> gap, tests_prefix |-> tests_prefix]

NoFailureLines == [failed_dash |-> 0, cross |-> 0, fail |-> 0]

Text(summary) == [summary |-> summary, failure_lines |-> NoFailureLines]

(* re.search: the first place that matches; single_space for a pattern with
   a literal space, prefixed for one that starts with Tests:\s+ *)
RECURSIVE Search(_, _, _, _)
Search(summary, word, single_space, prefixed) ==
  IF summary = <<>> THEN [found |-> FALSE, n |-> 0]
  ELSE IF /\ Head(summary).word = word
          /\ (single_space => Head(summary).gap = "space")
          /\ (prefixed => Head(summary).tests_prefix)
  THEN [found |-> TRUE, n |-> Head(summary).n]
  ELSE Search(Tail(summary), word, single_space, prefixed)

(* re.findall(pattern, combined)[:5] *)
FailureIds(pattern, matches) ==
  [i \in 1..MinInt(matches, 5) |-> <<pattern, i>>]

(* the loop over failure_patterns, left once five failures are listed *)
Failures(fl) ==
  IF fl.failed_dash >= 5 THEN FailureIds("FAILED", fl.failed_dash)
  ELSE IF MinInt(fl.failed_dash, 5) + MinInt(fl.cross, 5) >= 5
  THEN FailureIds("FAILED", fl.failed_dash) \o FailureIds("cross", fl.cross)
  ELSE FailureIds("FAILED", fl.failed_dash) \o FailureIds("cross", fl.cross)
         \o FailureIds("FAIL", fl.fail)

(* mutant: tests_run counts what ran to a verdict only *)
TestCounts_no_skipped(passed, failed, skipped, text) ==
  [tests_run |-> passed + failed, tests_passed |-> passed,
   tests_failed |-> failed, tests_skipped |-> skipped,
   failures |-> Failures(text.failure_lines)]

(* lines 339-353 *)
TestCounts(passed, failed, skipped, text) ==
  [tests_run |-> passed + failed + skipped, tests_passed |-> passed,
   tests_failed |-> failed, tests_skipped |-> skipped,
   failures |-> Failures(text.failure_lines)]

parse_test_output(text) ==
  LET pytest_match == Search(text.summary, "passed", TRUE, FALSE)
      pytest_fail  == Search(text.summary, "failed", TRUE, FALSE)
      pytest_skip  == Search(text.summary, "skipped", TRUE, FALSE)
      jest_match   == Search(text.summary, "passed", FALSE, TRUE)
      jest_fail    == Search(text.summary, "failed", FALSE, FALSE)
      tests_passed == IF jest_match.found THEN jest_match.n
                      ELSE IF pytest_match.found THEN pytest_match.n ELSE 0
      tests_failed == IF jest_fail.found /\ tests_passed > 0 THEN jest_fail.n
                      ELSE IF pytest_fail.found THEN pytest_fail.n ELSE 0
      tests_skipped == IF pytest_skip.found THEN pytest_skip.n ELSE 0
  IN  TestCounts(tests_passed, tests_failed, tests_skipped, text)

(* What a test subprocess does is [outcome, output]: it exits with status 0
   ("exit0") or another ("nonzero") having printed output, runs into the
   600 s timeout after printing output, or cannot be started.  run_command
   returns the captured text, or after a timeout or a launch error an empty
   stdout and a message in which no pattern of parse_test_output matches. *)
Outcomes == {"exit0", "nonzero", "timeout", "launch_error"}

Run(outcome, output) == [outcome |-> outcome, output |-> output]

(* mutant: the output of a command that exits non-zero is dropped *)
run_command_zero_only(run) ==
  IF run.outcome = "exit0"
  THEN [returncode |-> 0, output |-> run.output]
  ELSE [returncode |-> 1, output |-> Text(<<>>)]

run_command(run) ==
  IF run.outcome \in {"timeout", "launch_error"}
  THEN [returncode |-> 1, output |-> Text(<<>>)]
  ELSE [returncode |-> IF run.outcome = "exit0" THEN 0 ELSE 1,
        output |-> run.output]

(* find_test_files for a repository with unit and e2e test files *)
find_test_files(files) ==
  [unit_test_files |-> [i \in 1..files.unit |-> <<"test_unit", i>>],
   e2e_test_files  |-> [i \in 1..files.e2e |-> <<"test_e2e", i>>],
   unit_tests_found |-> files.unit > 0,
   e2e_tests_found  |-> files.e2e > 0]

(* the result of run_tests after lines 358-380 *)
TestsStart(files) ==
  [exists |-> TRUE,
   tests_run |-> 0, tests_passed |-> 0, tests_failed |-> 0,
   tests_skipped |-> 0, failures |-> <<>>,
   coverage_percentage |-> 0, coverage_by_file |-> <<>>,
   uncovered_functions |-> <<>>,
   unit_tests_found |-> find_test_files(files).unit_tests_found,
   unit_tests_count |-> Len(find_test_files(files).unit_test_files),
   unit_test_files |-> find_test_files(files).unit_test_files,
   e2e_tests_found |-> find_test_files(files).e2e_tests_found,
   e2e_tests_count |-> Len(find_test_files(files).e2e_test_files),
   e2e_test_files |-> find_test_files(files).e2e_test_files,
   coverage_total_lines |-> 0, coverage_covered_lines |-> 0]

(* lines 407-411: one toolchain's counts added *)
AddCounts(res, test_result) ==
  [res EXCEPT !.tests_run = @ + test_result.tests_run,
              !.tests_passed = @ + test_result.tests_passed,
              !.tests_failed = @ + test_result.tests_failed,
              !.tests_skipped = @ + test_result.tests_skipped,
              !.failures = @ \o test_result.failures]

(* lines 401-411: the loop over tests.commands *)
RECURSIVE RunCommands(_, _)
RunCommands(res, runs) ==
  IF runs = <<>> THEN res
  ELSE RunCommands(
         AddCounts(res, parse_test_output(run_command(Head(runs)).output)),
         Tail(runs))

(* lines 417-421: the counts of the single command *)
SetCounts(res, test_result) ==
  [res EXCEPT !.tests_run = test_result.tests_run,
              !.tests_passed = test_result.tests_passed,
              !.tests_failed = test_result.tests_failed,
              !.tests_skipped = test_result.tests_skipped,
              !.failures = test_result.failures]

(* lines 397-421 *)
RunTestCommands(res, tests, runs) ==
  IF tests.command
  THEN SetCounts(res, parse_test_output(run_command(runs[1]).output))
  ELSE RunCommands(res, SubSeq(runs, 1, tests.commands))

(* the file at a path of the workspace *)
DocAt(docs, path) ==
  IF \E i \in 1..Len(docs) : docs[i].path = path
  THEN docs[CHOOSE i \in 1..Len(docs) : docs[i].path = path]
  ELSE AbsentDoc

(* lines 427-436: coverage_result after the main coverage file *)
MainCoverage(tests, docs, changed) ==
  IF tests.coverage_file # ""
  THEN ParseWith(ParserFor(tests.coverage_file),
                 DocAt(docs, tests.coverage_file), changed)
  ELSE CoverageDefault

(* lines 452-455 *)
MergeInto(cov, lang_cov) ==
  [cov EXCEPT !.total_lines = @ + lang_cov.total_lines,
              !.covered_lines = @ + lang_cov.covered_lines,
              !.by_file = @ \o lang_cov.by_file,
              !.uncovered_functions = @ \o lang_cov.uncovered_functions]

(* lines 439-455: the loop over tests.coverage_files *)
RECURSIVE MergeCoverage(_, _, _, _)
MergeCoverage(cov, cov_files, docs, changed) ==
  IF cov_files = <<>> THEN cov
  ELSE IF \/ DocAt(docs, Head(cov_files)).format = "absent"
          \/ ParserFor(Head(cov_files)) = "none"
  THEN MergeCoverage(cov, Tail(cov_files), docs, changed)
  ELSE MergeCoverage(
         MergeInto(cov, ParseWith(ParserFor(Head(cov_files)),
                                  DocAt(docs, Head(cov_files)), changed)),
         Tail(cov_files), docs, changed)

(* lines 463-467 *)
WithCoverageResult(res, cov) ==
  [res EXCEPT !.coverage_percentage = cov.percentage,
              !.coverage_by_file = cov.by_file,
              !.uncovered_functions = cov.uncovered_functions,
              !.coverage_total_lines = cov.total_lines,
              !.coverage_covered_lines = cov.covered_lines]

(* a call of run_command: the key of the configuration the command comes
   from and its place under that key *)
Call(key, index) == [key |-> key, index |-> index]

(* mutant: the first setup command that fails ends the setup *)
RECURSIVE SetupLoop_stop(_, _, _, _)
SetupLoop_stop(i, n, runs, calls) ==
  IF i > n THEN calls
  ELSE IF run_command(runs[i]).returncode # 0
  THEN Append(calls, Call("setup", i))
  ELSE SetupLoop_stop(i + 1, n, runs, Append(calls, Call("setup", i)))

(* lines 389-394: every setup command is run; a return code other than 0
   only prints a warning *)
RECURSIVE SetupLoop(_, _, _, _)
SetupLoop(i, n, runs, calls) ==
  IF i > n THEN calls
  ELSE SetupLoop(i + 1, n, runs, Append(calls, Call("setup", i)))

(* lines 397-414: the test commands run *)
TestCalls(tests) ==
  IF tests.command THEN <<Call("command", 1)>>
  ELSE [i \in 1..tests.commands |-> Call("commands", i)]

(* mutant: the commands are run whether or not tests are enabled *)
CommandsRun_ungated(tests, runs) ==
  SetupLoop(1, tests.setup, runs, <<>>) \o TestCalls(tests)

(* the calls of run_command that run_tests makes, in order *)
CommandsRun(tests, runs) ==
  IF ~tests.enabled THEN <<>>
  ELSE SetupLoop(1, tests.setup, runs, <<>>) \o TestCalls(tests)

(* config.get("tests", {}) or tests_config.get(...) on a value that is not a
   mapping raises AttributeError *)
run_tests_raises(cfg) == cfg.kind # "mapping" \/ cfg.tests.kind = "null"

(* mutant: discovery is skipped as well when tests are not enabled *)
run_tests_gated(cfg, changed, files, runs, docs) ==
  IF ~cfg.tests.enabled THEN TestsStart([unit |-> 0, e2e |-> 0])
  ELSE WithCoverageResult(
         RunTestCommands(TestsStart(files), cfg.tests, runs),
         SetPercentage(MergeCoverage(MainCoverage(cfg.tests, docs, changed),
                                     cfg.tests.coverage_files, docs, changed)))

run_tests(cfg, changed, files, runs, docs) ==
  IF ~cfg.tests.enabled THEN TestsStart(files)
  ELSE WithCoverageResult(
         RunTestCommands(TestsStart(files), cfg.tests, runs),
         SetPercentage(MergeCoverage(MainCoverage(cfg.tests, docs, changed),
                                     cfg.tests.coverage_files, docs, changed)))

(* the "tests" section of a configuration that has none: every
   tests_config.get(...) returns its default *)
NoTestsSection ==
  [kind |-> "absent", enabled |-> FALSE, command |-> FALSE, commands |-> 0,
   coverage_file |-> "", coverage_files |-> <<>>, setup |-> 0]

(* a configuration mapping: kind is what load_yaml_safe returned, e2e the
   value under "e2e" ("mapping" also for the absent key, whose default is
   {}), e2e_required the value under e2e.required, tests the "tests" section *)
ConfigMapping(e2e_required, tests) ==
  [kind |-> "mapping", e2e |-> "mapping", e2e_required |-> e2e_required,
   tests |-> tests]

(* a "tests" section that is a mapping; command tells whether tests.command
   is set, commands is the number of tests.commands entries *)
TestsSection(enabled, command, commands, coverage_file, coverage_files) ==
  [kind |-> "mapping", enabled |-> enabled, command |-> command,
   commands |-> commands, coverage_file |-> coverage_file,
   coverage_files |-> coverage_files, setup |-> 0]

(* the section with n commands under tests.setup *)
WithSetup(section, n) == [section EXCEPT !.setup = n]

ConfigDoc(syntax, e2e, e2e_required, tests) ==
  [syntax |-> syntax, e2e |-> e2e, e2e_required |-> e2e_required,
   tests |-> tests]

MissingConfig == ConfigDoc("missing", "mapping", "absent", NoTestsSection)

(* the test-results document before run_tests.py has written it *)
NoTestsDoc == [exists |-> FALSE]

(* load_yaml_safe: yaml.safe_load(f) or {}.  The file is [syntax, ...]:
   missing, unparsable (safe_load raises), empty (safe_load returns None),
   a sequence or other non-empty value that is no mapping, or a mapping
   with the values under "e2e" and "tests" *)
load_yaml_safe(doc) ==
  IF doc.syntax \in {"missing", "unparsable", "empty"}
  THEN ConfigMapping("absent", NoTestsSection)
  ELSE [kind |-> doc.syntax, e2e |-> doc.e2e,
        e2e_required |-> doc.e2e_required, tests |-> doc.tests]

(***************************************************************************)
(* calculate_score.py, the parsers of the linter, duplication and test     *)
(* reports.  A JSON value is a record with its kind ("absent" for a file   *)
(* or key that is not there, "null", "text", "list", "mapping") and, for a *)
(* list or mapping, the values the parser reads from it.  A parser has no  *)
(* try block: its state is Running(result) or, once an expression has      *)
(* raised, Raised(result), and the exception leaves main().                *)
(***************************************************************************)

(* load_json_safe: None for a file that is missing or cannot be parsed *)
load_json_safe(doc) ==
  IF doc.kind \in {"absent", "unparsable"} THEN [doc EXCEPT !.kind = "null"]
  ELSE doc

(* a rule code that is null in the report: None in Python, which is in no
   rule set and contains no rule name *)
NoneText == "<None>"

LinterDefault ==
  [complexity_issues |-> <<>>, smell_issues |-> <<>>, total_issues |-> 0]

(* lines 69-74 (and 107-112, 142-147, 188-193): the entry filed *)
AddIssue(res, entry, is_complexity) ==
  IF is_complexity
  THEN [res EXCEPT !.complexity_issues = Append(@, entry),
                   !.total_issues = @ + 1]
  ELSE [res EXCEPT !.smell_issues = Append(@, entry),
                   !.total_issues = @ + 1]

(* x.get(key, {}).get(...) raises unless the value under key is a mapping
   or the key is absent *)
GetRaises(kind) == kind \notin {"absent", "mapping"}

(* ---- parse_ruff_results ---- *)
ruff_complexity_rules == {"C901", "PLR0915", "PLR0912", "PLR0911"}

RuffIssue(res, issue) ==
  IF issue.kind # "mapping" THEN Running(res)
  ELSE IF GetRaises(issue.location) THEN Raised(res)
  ELSE Running(AddIssue(res,
         [file |-> issue.filename,
          line |-> IF issue.location = "mapping" THEN issue.row ELSE 0,
          code |-> issue.code, message |-> issue.message],
         issue.code \in ruff_complexity_rules))

RECURSIVE RuffLoop(_, _)
RuffLoop(items, st) ==
  IF items = <<>> \/ st.raised THEN st
  ELSE RuffLoop(Tail(items), RuffIssue(st.result, Head(items)))

parse_ruff_results(data) ==
  IF data.kind # "list" \/ data.items = <<>> THEN Running(LinterDefault)
  ELSE RuffLoop(data.items, Running(LinterDefault))

(* ---- parse_eslint_results ---- *)
eslint_complexity_rules ==
  {"complexity", "max-depth", "max-nested-callbacks", "max-lines-per-function"}

(* msg.get("ruleId", "") or "": a null ruleId becomes "" *)
EslintRuleId(msg) == IF msg.ruleId = NoneText THEN "" ELSE msg.ruleId

(* mutant: exact membership, as for the other tools *)
EslintMessage_exact(res, filepath, msg) ==
  IF msg.kind # "mapping" THEN res
  ELSE AddIssue(res,
         [file |-> filepath, line |-> msg.line, code |-> EslintRuleId(msg),
          message |-> msg.message],
         EslintRuleId(msg) \in eslint_complexity_rules)

EslintMessage(res, filepath, msg) ==
  IF msg.kind # "mapping" THEN res
  ELSE AddIssue(res,
         [file |-> filepath, line |-> msg.line, code |-> EslintRuleId(msg),
          message |-> msg.message],
         \E r \in eslint_complexity_rules : contains(EslintRuleId(msg), r))

RECURSIVE EslintMessages(_, _, _)
EslintMessages(res, filepath, msgs) ==
  IF msgs = <<>> THEN res
  ELSE EslintMessages(EslintMessage(res, filepath, Head(msgs)), filepath,
                      Tail(msgs))

(* for msg in messages: a null under "messages" is not iterable *)
EslintFile(res, file_result) ==
  IF file_result.kind # "mapping" THEN Running(res)
  ELSE IF file_result.messages.kind = "null" THEN Raised(res)
  ELSE IF file_result.messages.kind = "absent" THEN Running(res)
  ELSE Running(EslintMessages(res, file_result.filePath,
                              file_result.messages.items))

RECURSIVE EslintLoop(_, _)
EslintLoop(items, st) ==
  IF items = <<>> \/ st.raised THEN st
  ELSE EslintLoop(Tail(items), EslintFile(st.result, Head(items)))

parse_eslint_results(data) ==
  IF data.kind # "list" \/ data.items = <<>> THEN Running(LinterDefault)
  ELSE EslintLoop(data.items, Running(LinterDefault))

(* ---- parse_swiftlint_results ---- *)
swiftlint_complexity_rules ==
  {"cyclomatic_complexity", "function_body_length", "type_body_length",
   "file_length"}

SwiftlintIssue(res, issue) ==
  IF issue.kind # "mapping" THEN res
  ELSE AddIssue(res,
         [file |-> issue.file, line |-> issue.line, code |-> issue.rule_id,
          message |-> issue.reason],
         issue.rule_id \in swiftlint_complexity_rules)

RECURSIVE SwiftlintLoop(_, _)
SwiftlintLoop(items, res) ==
  IF items = <<>> THEN res
  ELSE SwiftlintLoop(Tail(items), SwiftlintIssue(res, Head(items)))

parse_swiftlint_results(data) ==
  IF data.kind # "list" \/ data.items = <<>> THEN Running(LinterDefault)
  ELSE Running(SwiftlintLoop(data.items, LinterDefault))

(* ---- parse_detekt_results ---- *)
detekt_complexity_rules ==
  {"ComplexMethod", "LongMethod", "LargeClass", "NestedBlockDepth",
   "CyclomaticComplexMethod"}

(* location = issue.get("location", {}); location.get raises on a null *)
DetektIssue(res, issue) ==
  IF issue.kind # "mapping" THEN Running(res)
  ELSE IF GetRaises(issue.location) THEN Raised(res)
  ELSE Running(AddIssue(res,
         [file |-> IF issue.location = "mapping" THEN issue.path ELSE "",
          line |-> IF issue.location = "mapping" THEN issue.line ELSE 0,
          code |-> issue.rule, message |-> issue.message],
         issue.rule \in detekt_complexity_rules))

RECURSIVE DetektIssues(_, _)
DetektIssues(issues, st) ==
  IF issues = <<>> \/ st.raised THEN st
  ELSE DetektIssues(Tail(issues), DetektIssue(st.result, Head(issues)))

RECURSIVE DetektLoop(_, _)
DetektLoop(categories, st) ==
  IF categories = <<>> \/ st.raised THEN st
  ELSE DetektLoop(Tail(categories),
                  IF Head(categories).kind # "list" THEN st
                  ELSE DetektIssues(Head(categories).issues, st))

(* findings.items() raises unless "findings" is a mapping or absent (an
   empty report, returned at line 164, is the mapping without any key) *)
parse_detekt_results(data) ==
  IF data.kind # "mapping" THEN Running(LinterDefault)
  ELSE IF GetRaises(data.findings.kind) THEN Raised(LinterDefault)
  ELSE IF data.findings.kind = "absent" THEN Running(LinterDefault)
  ELSE DetektLoop(data.findings.categories, Running(LinterDefault))

(* ---- parse_jscpd_results ---- *)
JscpdDefault ==
  [percentage |-> 0, duplications |-> <<>>, total_lines |-> 0,
   duplicated_lines |-> 0]

(* lines 212-217; percentage in hundredths *)
JscpdTotals(data) ==
  IF data.statistics = "mapping" /\ data.total = "mapping"
  THEN [JscpdDefault EXCEPT !.percentage = data.percentage,
                            !.total_lines = data.lines,
                            !.duplicated_lines = data.duplicatedLines]
  ELSE JscpdDefault

JscpdDup(res, dup) ==
  IF dup.kind # "mapping" THEN Running(res)
  ELSE IF GetRaises(dup.firstFile) \/ GetRaises(dup.secondFile)
  THEN Raised(res)
  ELSE Running([res EXCEPT !.duplications = Append(@,
         [first_file |-> IF dup.firstFile = "mapping" THEN dup.first_name
                         ELSE "",
          second_file |-> IF dup.secondFile = "mapping" THEN dup.second_name
                          ELSE "",
          lines |-> dup.lines, tokens |-> dup.tokens])])

RECURSIVE JscpdLoop(_, _)
JscpdLoop(dups, st) ==
  IF dups = <<>> \/ st.raised THEN st
  ELSE JscpdLoop(Tail(dups), JscpdDup(st.result, Head(dups)))

(* stats.get / total.get raise on a null "statistics" or "total"; the loop
   over a null "duplicates" raises after the totals are stored *)
parse_jscpd_results(data) ==
  IF data.kind # "mapping" THEN Running(JscpdDefault)
  ELSE IF GetRaises(data.statistics) THEN Raised(JscpdDefault)
  ELSE IF data.statistics = "mapping" /\ GetRaises(data.total)
  THEN Raised(JscpdDefault)
  ELSE IF data.duplicates.kind = "null" THEN Raised(JscpdTotals(data))
  ELSE IF data.duplicates.kind = "absent" THEN Running(JscpdTotals(data))
  ELSE JscpdLoop(data.duplicates.items, Running(JscpdTotals(data)))

(* ---- parse_test_results ---- *)
TestsDefault ==
  [tests_run |-> 0, tests_passed |-> 0, tests_failed |-> 0,
   tests_skipped |-> 0, failures_details |-> <<>>,
   coverage_percentage |-> 0, coverage_by_file |-> <<>>,
   uncovered_functions |-> <<>>,
   unit_tests_found |-> FALSE, unit_tests_count |-> 0,
   unit_test_files |-> <<>>,
   e2e_tests_found |-> FALSE, e2e_tests_count |-> 0,
   coverage_total_lines |-> 0, coverage_covered_lines |-> 0]

(* the document is the one run_tests.py wrote (json.dump of its result), so
   every key is there; only data.get is used and nothing can raise *)
parse_test_results(data) ==
  IF ~data.exists THEN TestsDefault
  ELSE [tests_run |-> data.tests_run, tests_passed |-> data.tests_passed,
        tests_failed |-> data.tests_failed,
        tests_skipped |-> data.tests_skipped,
        failures_details |-> data.failures,
        coverage_percentage |-> data.coverage_percentage,
        coverage_by_file |-> data.coverage_by_file,
        uncovered_functions |-> data.uncovered_functions,
        unit_tests_found |-> data.unit_tests_found,
        unit_tests_count |-> data.unit_tests_count,
        unit_test_files |-> data.unit_test_files,
        e2e_tests_found |-> data.e2e_tests_found,
        e2e_tests_count |-> data.e2e_tests_count,
        coverage_total_lines |-> data.coverage_total_lines,
        coverage_covered_lines |-> data.coverage_covered_lines]

(* the report files of the workspace when no tool has run *)
ListReport(kind, items) == [kind |-> kind, items |-> items]

DetektReport(kind, findings, categories) ==
  [kind |-> kind, findings |-> [kind |-> findings, categories |-> categories]]

JscpdReport(kind, statistics, total, percentage, duplicates, dups) ==
  [kind |-> kind, statistics |-> statistics, total |-> total,
   percentage |-> percentage, lines |-> 100, duplicatedLines |-> 0,
   duplicates |-> [kind |-> duplicates, items |-> dups]]

NoLintDocs ==
  [ruff |-> ListReport("absent", <<>>),
   eslint |-> ListReport("absent", <<>>),
   swiftlint |-> ListReport("absent", <<>>),
   detekt |-> DetektReport("absent", "absent", <<>>),
   jscpd |-> JscpdReport("absent", "absent", "absent", 0, "absent", <<>>)]

(***************************************************************************)
(* State: the arguments main() hands to calculate_score (the outputs of    *)
(* the parse_* functions and the loaded configuration) and its result;     *)
(* and the workspace the two scripts read: the configuration file, the     *)
(* linter and duplication reports, the test files of the repository, what  *)
(* each test subprocess does, the coverage files, the test-results         *)
(* document run_tests.py writes, and the record a coverage parser returns; *)
(* what each setup subprocess does, and the calls of run_command made.     *)
(***************************************************************************)
VARIABLES pc, config, changed_files, ruff_data, eslint_data, swiftlint_data,
          detekt_data, jscpd_data, test_data, threshold, result,
          config_doc, lint_docs, test_files, command_runs, coverage_docs,
          tests_doc, coverage_report, setup_runs, ran

vars == <<pc, config, changed_files, ruff_data, eslint_data, swiftlint_data,
          detekt_data, jscpd_data, test_data, threshold, result,
          config_doc, lint_docs, test_files, command_runs, coverage_docs,
          tests_doc, coverage_report, setup_runs, ran>>

workspace == <<config_doc, lint_docs, test_files, command_runs, coverage_docs,
               tests_doc, coverage_report, setup_runs, ran>>

scorer == <<config, ruff_data, eslint_data, swiftlint_data, detekt_data,
            jscpd_data, test_data, threshold, result>>

NoResult == [final_score |-> 0]

(* bounds of the input domains *)
MaxToolComplexity == 1
MaxToolSmells == 2
MaxDupHundredths == 10000
MaxCovTenths == 1000
MaxTests == 24
MaxSkipped == 1
MaxCount == 2

(* an entry of complexity_issues / smell_issues as the linter parsers build it *)
IssueEntry(tool, code, i) ==
  [file |-> tool, line |-> i, code |-> code, message |-> ""]

(* what parse_<tool>_results returns for a report with c findings whose rule
   is in the tool's complexity set and s other findings *)
ParsedLinter(tool, c, s) ==
  [complexity_issues |-> [i \in 1..c |-> IssueEntry(tool, "complexity", i)],
   smell_issues      |-> [i \in 1..s |-> IssueEntry(tool, "smell", i)],
   total_issues      |-> c + s]

(* what parse_jscpd_results returns: the report's percentage as written
   (in hundredths), no filtering or clamping *)
ParsedJscpd(h) ==
  [percentage |-> h, duplications |-> <<>>, total_lines |-> 0,
   duplicated_lines |-> 0]

(* what parse_test_results returns for the document run_tests wrote: p, f, k
   tests passed, failed, skipped, coverage cov (in tenths), uc unit and ec
   e2e test files found by find_test_files *)
ParsedTests(p, f, k, cov, uc, ec) ==
  [tests_run |-> p + f + k, tests_passed |-> p, tests_failed |-> f,
   tests_skipped |-> k, failures_details |-> <<>>,
   coverage_percentage |-> cov, coverage_by_file |-> <<>>,
   uncovered_functions |-> <<>>,
   unit_tests_found |-> uc > 0, unit_tests_count |-> uc,
   unit_test_files |-> [i \in 1..uc |-> <<"test_unit", i>>],
   e2e_tests_found |-> ec > 0, e2e_tests_count |-> ec,
   coverage_total_lines |-> 0, coverage_covered_lines |-> 0]

(* no file of the workspace is there, nothing was written *)
NoWorkspace ==
  /\ config_doc = MissingConfig
  /\ lint_docs = NoLintDocs
  /\ test_files = [unit |-> 0, e2e |-> 0]
  /\ command_runs = <<>>
  /\ coverage_docs = <<>>
  /\ tests_doc = NoTestsDoc
  /\ coverage_report = CoverageDefault
  /\ setup_runs = <<>>
  /\ ran = <<>>

E2eSettings == {"absent", "false", "true"}

InitOver(CxR, CxO, SmR, SmO, Dup, Cov, Pass, Fail, Skip, UC, EC, Cfg, Thr) ==
  /\ pc = "parsed"
  /\ changed_files = <<"src/app.py">>
  /\ config \in {ConfigMapping(e, NoTestsSection) : e \in Cfg}
  /\ \E c \in CxR, s \in SmR : ruff_data = ParsedLinter("ruff", c, s)
  /\ \E c \in CxO, s \in SmO : eslint_data = ParsedLinter("eslint", c, s)
  /\ \E c \in CxO, s \in SmO : swiftlint_data = ParsedLinter("swiftlint", c, s)
  /\ \E c \in CxO, s \in SmO : detekt_data = ParsedLinter("detekt", c, s)
  /\ \E h \in Dup : jscpd_data = ParsedJscpd(h)
  /\ \E p \in Pass, f \in Fail, k \in Skip, cov \in Cov, uc \in UC, ec \in EC :
       test_data = ParsedTests(p, f, k, cov, uc, ec)
  /\ threshold \in Thr
  /\ result = NoResult
  /\ NoWorkspace

(* main(), lines 517-528: the one call of calculate_score *)
CalculateScore ==
  /\ pc = "parsed"
  /\ IF calculate_score_raises(config)
     THEN /\ result' = NoResult
          /\ pc' = "score_raised"
     ELSE /\ result' = calculate_score(config, changed_files, ruff_data,
                                       eslint_data, swiftlint_data,
                                       detekt_data, jscpd_data, test_data,
                                       threshold)
          /\ pc' = "scored"
  /\ UNCHANGED <<config, changed_files, ruff_data, eslint_data,
                 swiftlint_data, detekt_data, jscpd_data, test_data,
                 threshold>>
  /\ UNCHANGED workspace

Next == CalculateScore

(* linter findings vary, everything else as for absent artifacts *)
InitLint ==
  InitOver(0..MaxToolComplexity, 0..MaxToolComplexity,
           0..MaxToolSmells, 0..MaxToolSmells,
           {0}, {0}, {0}, {0}, {0}, {0}, {0},
           {"absent"}, {70})

SpecLint == InitLint /\ [][Next]_vars

InitDup ==
  InitOver({0}, {0}, {0}, {0}, 0..MaxDupHundredths, {0}, {0}, {0}, {0},
           {0}, {0}, {"absent"}, {70})

SpecDup == InitDup /\ [][Next]_vars

InitCov ==
  InitOver({0}, {0}, {0}, {0}, {0}, 0..MaxCovTenths, {0}, {0}, {0},
           {0}, {0}, {"absent"}, {70})

SpecCov == InitCov /\ [][Next]_vars

InitTests ==
  InitOver({0}, {0}, {0}, {0}, {0}, {0}, 0..MaxTests, 0..MaxTests,
           0..MaxSkipped, {0}, {0}, {"absent"}, {70})

SpecTests == InitTests /\ [][Next]_vars

InitPresence ==
  InitOver({0}, {0}, {0}, {0}, {0}, {0}, 0..MaxCount, 0..MaxCount, {0},
           0..MaxCount, 0..MaxCount, E2eSettings, {70})

SpecPresence == InitPresence /\ [][Next]_vars

(* every input varies, over values on both sides of each score band *)
MaxFullComplexity == 4
MaxFullSmells == 1
FullDup == {-50, 15, 46}
FullCov == {199, 200, 799, 800}
FullPassed == {0, 19, 20}
FullFailed == {0, 1}

Init ==
  InitOver(0..MaxFullComplexity, {0}, 0..MaxFullSmells, {0}, FullDup, FullCov,
           FullPassed, FullFailed, {0}, 0..1, 0..1, E2eSettings, {70})

Spec == Init /\ [][Next]_vars

(* inputs around the clean change: at most one issue of each kind, coverage
   on both sides of 85.0 percent, 19 to 21 tests, any threshold the
   --threshold option documents in its range *)
MaxCleanIssues == 1
CleanCov == {799, 850, 851}
CleanPassed == {19, 20, 21}
CleanThresholds == {0, 70, 100}

InitClean ==
  InitOver(0..MaxCleanIssues, {0}, 0..MaxCleanIssues, {0}, {0, 1}, CleanCov,
           CleanPassed, {0, 1}, {0}, 0..MaxCount, 0..1, E2eSettings,
           CleanThresholds)

SpecClean == InitClean /\ [][Next]_vars

(* evidence lists on both sides of the preview lengths: up to MaxListed
   findings of each kind from Ruff before up to one from ESLint, up to
   MaxListed uncovered functions and unit test files, up to MaxPairs
   duplication pairs and failures *)
MaxListed == 11
MaxPairs == 6

DuplicationPairs(n) ==
  [i \in 1..n |-> [first_file |-> "a.py", second_file |-> "b.py",
                   lines |-> i, tokens |-> 40]]

InitPreviews ==
  /\ pc = "parsed"
  /\ changed_files = <<"src/app.py">>
  /\ config = ConfigMapping("absent", NoTestsSection)
  /\ \E c \in 0..MaxListed : ruff_data = ParsedLinter("ruff", c, c)
  /\ \E c \in 0..1 : eslint_data = ParsedLinter("eslint", c, c)
  /\ swiftlint_data = ParsedLinter("swiftlint", 0, 0)
  /\ detekt_data = ParsedLinter("detekt", 0, 0)
  /\ \E d \in 0..MaxPairs, u \in 0..MaxListed :
       /\ jscpd_data =
            [ParsedJscpd(15) EXCEPT !.duplications = DuplicationPairs(d)]
       /\ test_data =
            [ParsedTests(20, d, 0, 800, u, 0) EXCEPT
               !.failures_details = [i \in 1..d |-> <<"FAILED", i>>],
               !.uncovered_functions =
                 [i \in 1..u |-> FunctionId("src/app.py", ToString(i), "f")]]
  /\ threshold = 70
  /\ result = NoResult
  /\ NoWorkspace

SpecPreviews == InitPreviews /\ [][Next]_vars

(***************************************************************************)
(* The coverage parsers on one coverage file.                              *)
(***************************************************************************)
(* what the scorer's variables hold while run_tests.py runs *)
ScorerIdle ==
  /\ config = ConfigMapping("absent", NoTestsSection)
  /\ ruff_data = ParsedLinter("ruff", 0, 0)
  /\ eslint_data = ParsedLinter("eslint", 0, 0)
  /\ swiftlint_data = ParsedLinter("swiftlint", 0, 0)
  /\ detekt_data = ParsedLinter("detekt", 0, 0)
  /\ jscpd_data = ParsedJscpd(0)
  /\ test_data = ParsedTests(0, 0, 0, 0, 0, 0)
  /\ threshold = 70
  /\ result = NoResult

(* the hit counts of one file: up to MaxLines of 0, 1 or not an integer *)
MaxLines == 2
HitValues == {Hit(0), Hit(1), BadHit}
HitLists == UNION {[1..n -> HitValues] : n \in 0..MaxLines}

(* three spellings of the changed file src/app.py, and another file *)
Spellings == {"./src/app.py", "/abs/repo/src/app.py", "app.py"}
OtherPath == "lib/util.py"

FileEntry(path, hits) == [path |-> path, hits |-> hits]
AppEntries == {FileEntry(p, h) : p \in Spellings, h \in HitLists}
OtherEntries == {FileEntry(OtherPath, h) : h \in HitLists}

(* reports with at most one entry for each of the two files *)
Reports ==
  {<<>>} \cup {<<a>> : a \in AppEntries} \cup {<<o>> : o \in OtherEntries}
    \cup {<<a, o>> : a \in AppEntries, o \in OtherEntries}
    \cup {<<o, a>> : a \in AppEntries, o \in OtherEntries}

(* the report written as a Cobertura file: one class per entry *)
CoberturaDoc(report) ==
  [path |-> "coverage.xml", format |-> "xml",
   body |-> [i \in 1..Len(report) |->
               [filename |-> report[i].path, lines |-> report[i].hits,
                methods |-> <<>>]]]

(* as an LCOV file: SF, one DA per hit count, end_of_record *)
RECURSIVE LcovRecords(_)
LcovRecords(report) ==
  IF report = <<>> THEN <<>>
  ELSE <<LcovSF(Head(report).path)>>
         \o [i \in 1..Len(Head(report).hits) |-> LcovDA(Head(report).hits[i])]
         \o <<LcovEnd>> \o LcovRecords(Tail(report))

LcovDoc(report) ==
  [path |-> "coverage.info", format |-> "lcov", body |-> LcovRecords(report)]

(* as an Istanbul file: one key per entry *)
IstanbulDoc(report) ==
  [path |-> "coverage.json", format |-> "json",
   body |-> [i \in 1..Len(report) |->
               [path |-> report[i].path, s |-> report[i].hits, f |-> <<>>]]]

DocOf(format, report) ==
  IF format = "xml" THEN CoberturaDoc(report)
  ELSE IF format = "lcov" THEN LcovDoc(report)
  ELSE IstanbulDoc(report)

CoverageFormats == {"xml", "lcov", "json"}

ChangedLists == {<<"src/app.py">>, <<"src/app.py", "lib/util.py">>}

InitCoverage ==
  /\ pc = "coverage_file"
  /\ changed_files \in ChangedLists
  /\ ScorerIdle
  /\ config_doc = MissingConfig
  /\ lint_docs = NoLintDocs
  /\ test_files = [unit |-> 0, e2e |-> 0]
  /\ command_runs = <<>>
  /\ \E fmt \in CoverageFormats, report \in Reports :
       coverage_docs = <<DocOf(fmt, report)>>
  /\ tests_doc = NoTestsDoc
  /\ coverage_report = CoverageDefault
  /\ setup_runs = <<>>
  /\ ran = <<>>

(* run_tests, lines 430-436: the parser for the file's name, applied *)
ParseCoverageFile ==
  /\ pc = "coverage_file"
  /\ coverage_report' = ParseWith(ParserFor(coverage_docs[1].path),
                                  coverage_docs[1], changed_files)
  /\ pc' = "coverage_parsed"
  /\ UNCHANGED <<changed_files, scorer, config_doc, lint_docs, test_files,
                 command_runs, coverage_docs, tests_doc, setup_runs, ran>>

NextCoverage == ParseCoverageFile

SpecCoverage == InitCoverage /\ [][NextCoverage]_vars

(* parse_lcov over every sequence of up to MaxLcovLines lines: SF: of the
   changed file or of another file, DA: with a count of 1, of 0 or with a
   count that is no integer, end_of_record *)
MaxLcovLines == 5
LcovAlphabet ==
  {LcovSF("./src/app.py"), LcovSF(OtherPath), LcovDA(Hit(1)), LcovDA(Hit(0)),
   LcovDA(BadHit), LcovEnd}
LcovBodies == UNION {[1..n -> LcovAlphabet] : n \in 0..MaxLcovLines}

InitLcov ==
  /\ pc = "coverage_file"
  /\ changed_files = <<"src/app.py">>
  /\ ScorerIdle
  /\ config_doc = MissingConfig
  /\ lint_docs = NoLintDocs
  /\ test_files = [unit |-> 0, e2e |-> 0]
  /\ command_runs = <<>>
  /\ \E body \in LcovBodies :
       coverage_docs =
         <<[path |-> "coverage.info", format |-> "lcov", body |-> body]>>
  /\ tests_doc = NoTestsDoc
  /\ coverage_report = CoverageDefault
  /\ setup_runs = <<>>
  /\ ran = <<>>

SpecLcov == InitLcov /\ [][NextCoverage]_vars

(* parse_cobertura_xml over classes with methods: up to MaxMethods methods
   of up to MaxMethodLines lines each, with or without a line attribute,
   and the class's own lines; a second class of either file may follow *)
MaxMethods == 2
MaxMethodLines == 2
MethodHits == UNION {[1..n -> {Hit(0), Hit(1)}] : n \in 0..MaxMethodLines}
Methods ==
  {[name |-> nl[1], line |-> nl[2], lines |-> h] :
     nl \in {<<"load", "3">>, <<"save", "?">>}, h \in MethodHits}
MethodLists == UNION {[1..n -> Methods] : n \in 0..MaxMethods}

Classes ==
  {[filename |-> f, lines |-> own, methods |-> ms] :
     f \in {"src/app.py", OtherPath}, own \in {<<>>, <<Hit(1)>>},
     ms \in MethodLists}

SecondClasses ==
  {[filename |-> f, lines |-> <<>>,
    methods |-> <<[name |-> "load", line |-> "3", lines |-> h]>>] :
     f \in {"src/app.py", OtherPath}, h \in {<<Hit(0), Hit(0)>>, <<Hit(1)>>}}

InitCobertura ==
  /\ pc = "coverage_file"
  /\ changed_files = <<"src/app.py">>
  /\ ScorerIdle
  /\ config_doc = MissingConfig
  /\ lint_docs = NoLintDocs
  /\ test_files = [unit |-> 0, e2e |-> 0]
  /\ command_runs = <<>>
  /\ \E body \in {<<c>> : c \in Classes}
                   \cup {<<c, d>> : c \in Classes, d \in SecondClasses} :
       coverage_docs =
         <<[path |-> "coverage.xml", format |-> "xml", body |-> body]>>
  /\ tests_doc = NoTestsDoc
  /\ coverage_report = CoverageDefault
  /\ setup_runs = <<>>
  /\ ran = <<>>

SpecCobertura == InitCobertura /\ [][NextCoverage]_vars

(* the three parsers on reports of up to MaxEntries entries of different
   files: app.py, which correlates with both changed files src/app.py and
   lib/app.py, src/app.py, and docs/readme.md, which correlates with
   neither; the changed-file list may be empty *)
MaxEntries == 2
ReportedPaths == {"app.py", "src/app.py", "docs/readme.md"}
ReportedHits == {<<>>, <<Hit(1)>>, <<Hit(0), Hit(1)>>, <<BadHit>>}
ReportedEntries == {FileEntry(p, h) : p \in ReportedPaths, h \in ReportedHits}

DistinctPaths(report) ==
  \A i, j \in 1..Len(report) : report[i].path = report[j].path => i = j

CorrelationReports ==
  {r \in UNION {[1..n -> ReportedEntries] : n \in 0..MaxEntries} :
     DistinctPaths(r)}

CorrelationChanged ==
  {<<>>, <<"src/app.py">>, <<"src/app.py", "lib/app.py">>,
   <<"lib/util.py", "lib/app.py", "src/app.py">>}

GarbageDoc == [path |-> "coverage.xml", format |-> "garbage", body |-> <<>>]

InitCorrelation ==
  /\ pc = "coverage_file"
  /\ changed_files \in CorrelationChanged
  /\ ScorerIdle
  /\ config_doc = MissingConfig
  /\ lint_docs = NoLintDocs
  /\ test_files = [unit |-> 0, e2e |-> 0]
  /\ command_runs = <<>>
  /\ \/ \E fmt \in CoverageFormats, report \in CorrelationReports :
          coverage_docs = <<DocOf(fmt, report)>>
     \/ coverage_docs = <<GarbageDoc>>
  /\ tests_doc = NoTestsDoc
  /\ coverage_report = CoverageDefault
  /\ setup_runs = <<>>
  /\ ran = <<>>

SpecCorrelation == InitCorrelation /\ [][NextCoverage]_vars

(***************************************************************************)
(* run_tests.py as a whole.                                                *)
(***************************************************************************)
(* main(), lines 480-490: the configuration loaded, run_tests called, its
   result written; coverage_report keeps what the parser of the main
   coverage file returned *)
RunTestsMain ==
  /\ pc = "run_tests"
  /\ IF run_tests_raises(load_yaml_safe(config_doc))
     THEN /\ pc' = "run_tests_raised"
          /\ UNCHANGED <<tests_doc, coverage_report, ran>>
     ELSE /\ ran' = CommandsRun(load_yaml_safe(config_doc).tests, setup_runs)
          /\ tests_doc' = run_tests(load_yaml_safe(config_doc), changed_files,
                                    test_files, command_runs, coverage_docs)
          /\ coverage_report' =
               IF load_yaml_safe(config_doc).tests.enabled
               THEN MainCoverage(load_yaml_safe(config_doc).tests,
                                 coverage_docs, changed_files)
               ELSE coverage_report
          /\ pc' = "tested"
  /\ UNCHANGED <<changed_files, scorer, config_doc, lint_docs, test_files,
                 command_runs, coverage_docs, setup_runs>>

NextRunTests == RunTestsMain

(* the texts of up to MaxTokens summary places *)
MaxTokens == 2
Tokens ==
  {Token(n, w, g, t) : n \in {1, 2}, w \in {"passed", "failed", "skipped"},
                       g \in {"space", "wide"}, t \in BOOLEAN}
Texts == {Text(summary) : summary \in UNION {[1..n -> Tokens] : n \in 0..MaxTokens}}

(* "1 failed, 3 passed, 2 skipped" of pytest; "Tests: 1 failed, 2 passed"
   and "Tests: 4 passed" of jest; no summary at all *)
PytestText ==
  Text(<<Token(1, "failed", "space", FALSE), Token(3, "passed", "space", FALSE),
         Token(2, "skipped", "space", FALSE)>>)
JestFailText ==
  Text(<<Token(1, "failed", "space", TRUE), Token(2, "passed", "space", FALSE)>>)
JestPassText == Text(<<Token(4, "passed", "space", TRUE)>>)
ToolTexts == {PytestText, JestFailText, JestPassText, Text(<<>>)}

MaxCommands == 2
MaxFiles == 1
FileCounts == [unit : 0..MaxFiles, e2e : 0..MaxFiles]

EnabledConfig(command, commands) ==
  ConfigDoc("mapping", "mapping", "absent",
            TestsSection(TRUE, command, commands, "", <<>>))

(* tests not enabled; one tests.command over every text; up to MaxCommands
   tests.commands entries over the toolchains' texts *)
InitRunTests ==
  /\ pc = "run_tests"
  /\ changed_files = <<"src/app.py">>
  /\ ScorerIdle
  /\ lint_docs = NoLintDocs
  /\ coverage_docs = <<>>
  /\ tests_doc = NoTestsDoc
  /\ coverage_report = CoverageDefault
  /\ setup_runs = <<>>
  /\ ran = <<>>
  /\ \/ /\ config_doc \in
             {ConfigDoc("mapping", "mapping", "absent",
                        TestsSection(FALSE, c, 1, "", <<>>)) : c \in BOOLEAN}
             \cup {MissingConfig}
        /\ test_files \in FileCounts
        /\ \E o \in Outcomes : command_runs = <<Run(o, PytestText)>>
     \/ /\ config_doc = EnabledConfig(TRUE, 0)
        /\ test_files = [unit |-> 1, e2e |-> 0]
        /\ \E o \in Outcomes, t \in Texts : command_runs = <<Run(o, t)>>
     \/ /\ test_files \in FileCounts
        /\ \E n \in 0..MaxCommands :
             /\ config_doc = EnabledConfig(FALSE, n)
             /\ command_runs \in
                  [1..n -> {Run(o, t) : o \in Outcomes, t \in ToolTexts}]

SpecRunTests == InitRunTests /\ [][NextRunTests]_vars

(* run_tests with one passing test command, a main coverage file and one
   tests.coverage_files entry; both files of the reports are changed files *)
BothEntries ==
  {<<FileEntry("src/app.py", h)>> : h \in HitLists}
    \cup {<<FileEntry("src/app.py", h), FileEntry(OtherPath, g)>> :
            h \in HitLists, g \in HitLists}

LangDocs ==
  {[DocOf("lcov", r) EXCEPT !.path = "js/lcov.info"] :
     r \in {<<FileEntry(OtherPath, <<Hit(1), Hit(1), Hit(0)>>)>>,
            <<FileEntry(OtherPath, <<Hit(1)>>),
              FileEntry("src/app.py", <<BadHit>>)>>}}

InitRunCoverage ==
  /\ pc = "run_tests"
  /\ changed_files = <<"src/app.py", "lib/util.py">>
  /\ ScorerIdle
  /\ lint_docs = NoLintDocs
  /\ test_files = [unit |-> 1, e2e |-> 0]
  /\ command_runs = <<Run("exit0", PytestText)>>
  /\ tests_doc = NoTestsDoc
  /\ coverage_report = CoverageDefault
  /\ setup_runs = <<>>
  /\ ran = <<>>
  /\ \E main \in {DocOf(fmt, r) : fmt \in CoverageFormats, r \in BothEntries},
        lang \in {<<>>} \cup {<<d>> : d \in LangDocs},
        listed \in BOOLEAN, present \in BOOLEAN :
       /\ coverage_docs = (IF present THEN <<main>> ELSE <<>>) \o lang
       /\ config_doc =
            ConfigDoc("mapping", "mapping", "absent",
                      TestsSection(TRUE, TRUE, 0,
                                   IF listed THEN main.path ELSE "",
                                   <<"js/lcov.info">>))

SpecRunCoverage == InitRunCoverage /\ [][NextRunTests]_vars

(* run_tests with up to MaxSetup setup commands of every outcome, tests
   enabled or not, tests.command set or not beside up to MaxCommands
   tests.commands entries, and a coverage file that is there *)
MaxSetup == 2

SetupRuns ==
  UNION {[1..n -> {Run(o, Text(<<>>)) : o \in Outcomes}] : n \in 0..MaxSetup}

ToolRuns ==
  {Run(o, t) : o \in {"exit0", "nonzero"}, t \in {JestFailText, JestPassText}}

InitRunSetup ==
  /\ pc = "run_tests"
  /\ changed_files = <<"src/app.py">>
  /\ ScorerIdle
  /\ lint_docs = NoLintDocs
  /\ test_files \in {[unit |-> 0, e2e |-> 0], [unit |-> 1, e2e |-> 1]}
  /\ coverage_docs =
       <<DocOf("lcov", <<FileEntry("src/app.py", <<Hit(1), Hit(0)>>)>>)>>
  /\ tests_doc = NoTestsDoc
  /\ coverage_report = CoverageDefault
  /\ ran = <<>>
  /\ setup_runs \in SetupRuns
  /\ \E enabled \in BOOLEAN, command \in BOOLEAN, n \in 0..MaxCommands :
       /\ config_doc =
            ConfigDoc("mapping", "mapping", "absent",
                      WithSetup(TestsSection(enabled, command, n,
                                             "coverage.info", <<>>),
                                Len(setup_runs)))
       /\ command_runs \in [1..(IF command THEN 1 ELSE n) -> ToolRuns]

SpecRunSetup == InitRunSetup /\ [][NextRunTests]_vars

(* run_tests with a main coverage file and up to MaxCoverageFiles
   tests.coverage_files entries, of every name of CoveragePaths and holding
   the same report in every format *)
MaxCoverageFiles == 1
CoveragePaths ==
  {"coverage.xml", "coverage.info", "coverage.json",
   "lcov-report/coverage.json", "lcov.xml", "coverage/lcov", "coverage.txt"}

NamedDoc(path, format) ==
  [DocOf(format, <<FileEntry("src/app.py", <<Hit(1), Hit(0)>>)>>)
     EXCEPT !.path = path]

(* the files of the workspace: name and format of each, names all different *)
NamedFiles(n) ==
  {files \in [1..n -> CoveragePaths \X CoverageFormats] :
     \A i, j \in 1..n : files[i][1] = files[j][1] => i = j}

InitParsers ==
  /\ pc = "run_tests"
  /\ changed_files = <<"src/app.py">>
  /\ ScorerIdle
  /\ lint_docs = NoLintDocs
  /\ test_files = [unit |-> 1, e2e |-> 0]
  /\ command_runs = <<Run("exit0", PytestText)>>
  /\ tests_doc = NoTestsDoc
  /\ coverage_report = CoverageDefault
  /\ setup_runs = <<>>
  /\ ran = <<>>
  /\ \E n \in 1..(MaxCoverageFiles + 1) : \E files \in NamedFiles(n) :
     \E main \in BOOLEAN :
       /\ coverage_docs = [i \in 1..n |-> NamedDoc(files[i][1], files[i][2])]
       /\ config_doc =
            ConfigDoc("mapping", "mapping", "absent",
                      TestsSection(TRUE, TRUE, 0,
                                   IF main THEN files[1][1] ELSE "",
                                   [i \in 1..(n - 1) |-> files[i + 1][1]]))

SpecParsers == InitParsers /\ [][NextRunTests]_vars

(* run_tests with one test command whose output holds up to MaxFailureLines
   lines of each of the three failure-line conventions *)
MaxFailureLines == 6

FailureTexts ==
  {[JestFailText EXCEPT !.failure_lines =
      [failed_dash |-> a, cross |-> b, fail |-> c]] :
     a \in 0..MaxFailureLines, b \in 0..MaxFailureLines,
     c \in 0..MaxFailureLines}

InitFailures ==
  /\ pc = "run_tests"
  /\ changed_files = <<"src/app.py">>
  /\ ScorerIdle
  /\ lint_docs = NoLintDocs
  /\ test_files = [unit |-> 1, e2e |-> 0]
  /\ coverage_docs = <<>>
  /\ tests_doc = NoTestsDoc
  /\ coverage_report = CoverageDefault
  /\ setup_runs = <<>>
  /\ ran = <<>>
  /\ config_doc = EnabledConfig(TRUE, 0)
  /\ \E text \in FailureTexts : command_runs = <<Run("nonzero", text)>>

SpecFailures == InitFailures /\ [][NextRunTests]_vars

(* calculate_score.py main(), lines 501-515: the configuration loaded and
   the six reports parsed, in this order; an exception of a parser leaves
   main() before calculate_score is called.  The scorer is a program of its
   own and reads whatever test-results document run_tests.py left. *)
ParsersRaise(docs) ==
  \/ parse_ruff_results(load_json_safe(docs.ruff)).raised
  \/ parse_eslint_results(load_json_safe(docs.eslint)).raised
  \/ parse_swiftlint_results(load_json_safe(docs.swiftlint)).raised
  \/ parse_detekt_results(load_json_safe(docs.detekt)).raised
  \/ parse_jscpd_results(load_json_safe(docs.jscpd)).raised

ParseResults ==
  /\ pc \in {"tested", "run_tests_raised"}
  /\ IF ParsersRaise(lint_docs)
     THEN /\ pc' = "parse_raised"
          /\ UNCHANGED <<config, ruff_data, eslint_data, swiftlint_data,
                         detekt_data, jscpd_data, test_data>>
     ELSE /\ config' = load_yaml_safe(config_doc)
          /\ ruff_data' = parse_ruff_results(load_json_safe(lint_docs.ruff)).result
          /\ eslint_data' =
               parse_eslint_results(load_json_safe(lint_docs.eslint)).result
          /\ swiftlint_data' =
               parse_swiftlint_results(load_json_safe(lint_docs.swiftlint)).result
          /\ detekt_data' =
               parse_detekt_results(load_json_safe(lint_docs.detekt)).result
          /\ jscpd_data' =
               parse_jscpd_results(load_json_safe(lint_docs.jscpd)).result
          /\ test_data' = parse_test_results(tests_doc)
          /\ pc' = "parsed"
  /\ UNCHANGED <<changed_files, threshold, result>>
  /\ UNCHANGED workspace

NextPipeline == RunTestsMain \/ ParseResults \/ CalculateScore

(* the shapes of each report: absent, unparsable, null, of the wrong kind,
   well-formed, and with a null where a mapping or list is expected *)
Location == {"absent", "mapping", "null"}

RuffReports ==
  {ListReport(k, <<>>) : k \in {"unparsable", "null", "mapping", "list"}}
    \cup {ListReport("list",
            <<[kind |-> "mapping", code |-> c, filename |-> "src/app.py",
               location |-> l, row |-> 3, message |-> "m"]>>) :
            c \in {"C901", "E501"}, l \in Location}
    \cup {ListReport("list", <<[kind |-> "text"]>>)}

EslintMessagesOf(rule) ==
  [kind |-> "list",
   items |-> <<[kind |-> "mapping", ruleId |-> rule, line |-> 3,
                message |-> "m"], [kind |-> "text"]>>]

EslintReports ==
  {ListReport("list",
     <<[kind |-> "mapping", filePath |-> "src/app.js", messages |-> m]>>) :
     m \in {[kind |-> "absent", items |-> <<>>],
            [kind |-> "null", items |-> <<>>],
            EslintMessagesOf("max-depth"), EslintMessagesOf(""),
            EslintMessagesOf("no-unused-vars")}}

SwiftlintReports ==
  {ListReport("list",
     <<[kind |-> "mapping", rule_id |-> r, file |-> "App.swift", line |-> 3,
        reason |-> "m"], [kind |-> "null"]>>) :
     r \in {"file_length", "line_length"}}

DetektIssueOf(rule, location) ==
  [kind |-> "mapping", rule |-> rule, location |-> location,
   path |-> "App.kt", line |-> 3, message |-> "m"]

DetektReports ==
  {DetektReport("mapping", f, <<>>) : f \in {"absent", "null", "list"}}
    \cup {DetektReport("mapping", "mapping",
            <<[kind |-> "null", issues |-> <<>>],
              [kind |-> "list", issues |-> <<DetektIssueOf(r, l)>>]>>) :
            r \in {"LongMethod", "MagicNumber"}, l \in Location}

JscpdDupOf(first, second) ==
  [kind |-> "mapping", firstFile |-> first, first_name |-> "a.py",
   secondFile |-> second, second_name |-> "b.py", lines |-> 5,
   tokens |-> 40]

JscpdReports ==
  {JscpdReport("mapping", st, t, 350, "absent", <<>>) :
     st \in Location, t \in Location}
    \cup {JscpdReport("mapping", "mapping", "mapping", 350, "null", <<>>)}
    \cup {JscpdReport("mapping", "mapping", "mapping", 350, "list",
            <<JscpdDupOf(a, b), [kind |-> "text"]>>) :
            a \in Location, b \in Location}

(* at most one report differs from the absent one *)
LintDocSets ==
  {NoLintDocs}
    \cup {[NoLintDocs EXCEPT !.ruff = d] : d \in RuffReports}
    \cup {[NoLintDocs EXCEPT !.eslint = d] : d \in EslintReports}
    \cup {[NoLintDocs EXCEPT !.swiftlint = d] : d \in SwiftlintReports}
    \cup {[NoLintDocs EXCEPT !.detekt = d] : d \in DetektReports}
    \cup {[NoLintDocs EXCEPT !.jscpd = d] : d \in JscpdReports}

(* the configuration file: missing, unparsable, empty, a sequence, or a
   mapping whose "e2e" and "tests" values are mappings, absent or null *)
NullTestsSection == [NoTestsSection EXCEPT !.kind = "null"]

ConfigDocs ==
  {ConfigDoc(sx, "mapping", "absent", NoTestsSection) :
     sx \in {"missing", "unparsable", "empty", "sequence"}}
    \cup {ConfigDoc("mapping", "null", "absent", NoTestsSection),
          ConfigDoc("mapping", "mapping", "absent", NullTestsSection)}
    \cup {ConfigDoc("mapping", "mapping", e, t) :
            e \in E2eSettings,
            t \in {NoTestsSection,
                   TestsSection(FALSE, TRUE, 0, "coverage.info", <<>>),
                   TestsSection(TRUE, TRUE, 0, "coverage.info", <<>>)}}

PipelineCoverage ==
  {<<>>, <<DocOf("lcov", <<FileEntry("src/app.py", <<Hit(1), Hit(0)>>)>>)>>}

InitPipeline ==
  /\ pc = "run_tests"
  /\ changed_files = <<"src/app.py">>
  /\ ScorerIdle
  /\ config_doc \in ConfigDocs
  /\ lint_docs \in LintDocSets
  /\ test_files \in FileCounts
  /\ command_runs \in {<<Run("exit0", t)>> : t \in {JestPassText, JestFailText}}
  /\ coverage_docs \in PipelineCoverage
  /\ tests_doc = NoTestsDoc
  /\ coverage_report = CoverageDefault
  /\ setup_runs = <<>>
  /\ ran = <<>>

SpecPipeline == InitPipeline /\ [][NextPipeline]_vars

(* calculate_score.py alone, over linter reports of up to MaxFindings
   findings of one tool: a rule of the tool's complexity set, a rule that
   only contains such a name, an unrecognized, an empty and a null rule
   code, and an entry that is no mapping *)
NextScorer == ParseResults \/ CalculateScore

MaxFindings == 3

FindingLists(findings) == UNION {[1..n -> findings] : n \in 0..MaxFindings}

RuffFindings ==
  {[kind |-> "mapping", code |-> c, filename |-> "src/app.py",
    location |-> "mapping", row |-> 3, message |-> "m"] :
     c \in {"C901", "PLR0912", "XC901", "E501", "", NoneText}}
    \cup {[kind |-> "text"]}

EslintFindings ==
  {[kind |-> "mapping", ruleId |-> c, line |-> 3, message |-> "m"] :
     c \in {"complexity", "sonarjs/cognitive-complexity",
            "@typescript-eslint/max-depth", "no-unused-vars", "", NoneText}}
    \cup {[kind |-> "text"]}

SwiftlintFindings ==
  {[kind |-> "mapping", rule_id |-> c, file |-> "App.swift", line |-> 3,
    reason |-> "m"] :
     c \in {"file_length", "cyclomatic_complexity", "file_length_limit",
            "line_length", "", NoneText}}
    \cup {[kind |-> "text"]}

DetektFindings ==
  {DetektIssueOf(c, "mapping") :
     c \in {"LongMethod", "ComplexMethod", "TooLongMethod", "MagicNumber", "",
            NoneText}}
    \cup {[kind |-> "text"]}

FindingDocSets ==
  {[NoLintDocs EXCEPT !.ruff = ListReport("list", items)] :
     items \in FindingLists(RuffFindings)}
    \cup {[NoLintDocs EXCEPT !.eslint =
             ListReport("list",
               <<[kind |-> "mapping", filePath |-> "src/app.js",
                  messages |-> [kind |-> "list", items |-> items]]>>)] :
            items \in FindingLists(EslintFindings)}
    \cup {[NoLintDocs EXCEPT !.swiftlint = ListReport("list", items)] :
            items \in FindingLists(SwiftlintFindings)}
    \cup {[NoLintDocs EXCEPT !.detekt =
             DetektReport("mapping", "mapping",
                          <<[kind |-> "list", issues |-> items]>>)] :
            items \in FindingLists(DetektFindings)}

InitLinters ==
  /\ pc = "tested"
  /\ changed_files = <<"src/app.py">>
  /\ ScorerIdle
  /\ config_doc = MissingConfig
  /\ lint_docs \in FindingDocSets
  /\ test_files = [unit |-> 0, e2e |-> 0]
  /\ command_runs = <<>>
  /\ coverage_docs = <<>>
  /\ tests_doc = TestsStart(test_files)
  /\ coverage_report = CoverageDefault
  /\ setup_runs = <<>>
  /\ ran = <<>>

SpecLinters == InitLinters /\ [][NextScorer]_vars

(***************************************************************************)
(* Properties.                                                             *)
(***************************************************************************)
Scored == pc = "scored"

TotalComplexity ==
  Len(ruff_data.complexity_issues) + Len(eslint_data.complexity_issues)
    + Len(swiftlint_data.complexity_issues) + Len(detekt_data.complexity_issues)

TotalSmells ==
  Len(ruff_data.smell_issues) + Len(eslint_data.smell_issues)
    + Len(swiftlint_data.smell_issues) + Len(detekt_data.smell_issues)

(* C1: with n complexity and m smell issues summed over the four linter
   reports, the complexity score is max(0, 15 - 4n) with penalty min(15, 4n)
   and the smells score is max(0, 15 - 3m) with penalty min(15, 3m); at zero
   issues the score is 15, and no score is negative. *)
C1_IssueScores ==
  Scored =>
    LET n  == TotalComplexity
        m  == TotalSmells
        cx == result.breakdown.code_quality.complexity
        sm == result.breakdown.code_quality.smells
    IN  /\ cx.score = (IF 15 - 4 * n > 0 THEN 15 - 4 * n ELSE 0)
        /\ cx.penalty = (IF 4 * n < 15 THEN 4 * n ELSE 15)
        /\ sm.score = (IF 15 - 3 * m > 0 THEN 15 - 3 * m ELSE 0)
        /\ sm.penalty = (IF 3 * m < 15 THEN 3 * m ELSE 15)
        /\ (n = 0 => cx.score = 15)
        /\ (m = 0 => sm.score = 15)
        /\ cx.score >= 0
        /\ sm.score >= 0

(* both caps reached, with issues coming from more than one linter *)
C1_Witness ==
  /\ Scored
  /\ TotalComplexity >= 4
  /\ TotalSmells >= 6
  /\ Len(ruff_data.complexity_issues) < TotalComplexity
  /\ result.breakdown.code_quality.complexity.score = 0
  /\ result.breakdown.code_quality.smells.score = 0

(* C2: for every duplication percentage p in [0,100] the reported score and
   penalty (each rounded to one decimal) sum to exactly 10, and for p >= 10
   the score is exactly 0. *)
C2_DuplicationSum ==
  (Scored /\ jscpd_data.percentage \in 0..10000) =>
    LET d == result.breakdown.code_quality.duplication
    IN  /\ Tenths(d.score) + Tenths(d.penalty) = 100
        /\ (jscpd_data.percentage >= 1000 => d.score = FZero)

(* C3: the coverage score is a step function of the percentage with
   inclusive lower band edges: >= 80 gives 20, [60,80) gives 15, [40,60)
   gives 10, [20,40) gives 5, below 20 gives 0, and nothing else. *)
C3_CoverageSteps ==
  Scored =>
    LET t  == test_data.coverage_percentage
        sc == result.breakdown.test_health.coverage.score
    IN  /\ (t >= 800 => sc = 20)
        /\ (t >= 600 /\ t < 800 => sc = 15)
        /\ (t >= 400 /\ t < 600 => sc = 10)
        /\ (t >= 200 /\ t < 400 => sc = 5)
        /\ (t < 200 => sc = 0)
        /\ sc \in {0, 5, 10, 15, 20}

(* 79.9 percent scores 15 *)
C3_Witness ==
  /\ Scored
  /\ test_data.coverage_percentage = 799
  /\ result.breakdown.test_health.coverage.score = 15

(* C4: the test-results score depends only on passed / (passed + failed):
   10 at exactly 100%, 8 in [95%,100%), 5 in [80%,95%), 0 below 80%, and 0
   when passed + failed = 0; skipped tests are not in the denominator. *)
C4_TestResultsSteps ==
  Scored =>
    LET p     == test_data.tests_passed
        total == test_data.tests_passed + test_data.tests_failed
        sc    == result.breakdown.test_health.results.score
    IN  /\ (total = 0 => sc = 0)
        /\ (total > 0 /\ p = total => sc = 10)
        /\ (total > 0 /\ p < total /\ 100 * p >= 95 * total => sc = 8)
        /\ (100 * p < 95 * total /\ 100 * p >= 80 * total => sc = 5)
        /\ (100 * p < 80 * total => sc = 0)

(* 19 of 20 passed with one more test skipped: exactly 95%, 8 points *)
C4_Witness ==
  /\ Scored
  /\ test_data.tests_passed = 19
  /\ test_data.tests_failed = 1
  /\ test_data.tests_skipped = 1
  /\ result.breakdown.test_health.results.score = 8

(* C5: the unit-test presence score is 20 exactly when unit tests were found
   and no test failed, and 0 otherwise; the number of unit test files and of
   passed tests does not affect it. *)
C5_UnitPresence ==
  Scored =>
    result.breakdown.test_presence.unit_tests.score =
      (IF test_data.unit_tests_found /\ test_data.tests_failed = 0
       THEN 20 ELSE 0)

(* unit tests found, a test failed, others passed: no credit *)
C5_Witness ==
  /\ Scored
  /\ test_data.unit_tests_found
  /\ test_data.unit_tests_count = 2
  /\ test_data.tests_failed = 1
  /\ test_data.tests_passed = 2
  /\ result.breakdown.test_presence.unit_tests.score = 0

OverallMax ==
  result.breakdown.code_quality.max + result.breakdown.test_health.max
    + result.breakdown.test_presence.max

(* C6: with e2e.required true the e2e metric has max 10 and scores 10 iff
   e2e tests were found (whatever their count), test_presence max is 30 and
   the overall max 100; with e2e.required false or absent the metric is
   reported not-applicable, adds nothing to the earned total or the
   denominator whether or not e2e tests were found, test_presence max is 20
   and the overall max 90. *)
C6_E2ePresence ==
  Scored =>
    LET tp == result.breakdown.test_presence
    IN  IF config.e2e_required = "true"
        THEN /\ tp.e2e.max = 10
             /\ tp.e2e.score = (IF test_data.e2e_tests_found THEN 10 ELSE 0)
             /\ tp.total = tp.unit_tests.score + tp.e2e.score
             /\ tp.max = 30
             /\ OverallMax = 100
        ELSE /\ tp.e2e.max = NA
             /\ tp.e2e.score = NA
             /\ tp.total = tp.unit_tests.score
             /\ tp.max = 20
             /\ OverallMax = 90

(* e2e tests found but not required: not applicable, nothing earned *)
C6_Witness ==
  /\ Scored
  /\ config.e2e_required = "absent"
  /\ test_data.e2e_tests_found
  /\ test_data.unit_tests_found
  /\ test_data.tests_failed = 0
  /\ result.breakdown.test_presence.e2e.score = NA
  /\ result.breakdown.test_presence.total = 20
  /\ result.breakdown.test_presence.max = 20

(* the sum of the reported sub-metric scores, in tenths of a point *)
EarnedTenths ==
  LET b == result.breakdown
      e == b.test_presence.e2e.score
  IN  10 * (b.code_quality.complexity.score + b.code_quality.smells.score
            + b.test_health.coverage.score + b.test_health.results.score
            + b.test_presence.unit_tests.score + (IF e = NA THEN 0 ELSE e))
        + Tenths(b.code_quality.duplication.score)

(* num / den rounded to the nearest integer, ties to even (Python's round);
   num >= 0, den > 0 *)
RoundHalfEven(num, den) ==
  LET q == num \div den
      r == num % den
  IN  IF 2 * r > den \/ (2 * r = den /\ q % 2 = 1) THEN q + 1 ELSE q

(* the same with ties rounded up *)
RoundHalfUp(num, den) ==
  LET q == num \div den
      r == num % den
  IN  IF 2 * r >= den THEN q + 1 ELSE q

(* C7: final_score = round(100 * total_earned / total_max), total_earned
   the sum of the sub-metric scores and total_max the sum of the three
   category maxima; passed is true exactly when final_score >= threshold.
   Stated so that either convention for a tie (to even, as Python's round,
   or upwards) satisfies it. *)
C7_FinalScore ==
  Scored =>
    /\ result.final_score \in
         {RoundHalfEven(100 * EarnedTenths, 10 * OverallMax),
          RoundHalfUp(100 * EarnedTenths, 10 * OverallMax)}
    /\ result.passed = (result.final_score >= result.threshold)

(* C8: final_score is an integer in 0..100 for every input the parsers can
   hand to calculate_score. *)
C8_FinalScoreRange ==
  Scored => result.final_score \in 0..100

(* the four ways of adding one complexity issue: one per linter report *)
WithOneMoreComplexityIssue(tool) ==
  LET extra(d, name) ==
        IF tool = name
        THEN [d EXCEPT !.complexity_issues =
                         Append(@, IssueEntry(name, "complexity", Len(@) + 1)),
                       !.total_issues = @ + 1]
        ELSE d
  IN  calculate_score(config, changed_files,
                      extra(ruff_data, "ruff"), extra(eslint_data, "eslint"),
                      extra(swiftlint_data, "swiftlint"),
                      extra(detekt_data, "detekt"),
                      jscpd_data, test_data, threshold)

Linters == {"ruff", "eslint", "swiftlint", "detekt"}

(* C9: adding one complexity issue, everything else unchanged, never
   increases final_score. *)
C9_ComplexityMonotone ==
  Scored =>
    \A tool \in Linters :
      WithOneMoreComplexityIssue(tool).final_score <= result.final_score

(* one more issue strictly lowers the score *)
C9_Witness ==
  /\ Scored
  /\ TotalComplexity = 1
  /\ \A tool \in Linters :
       WithOneMoreComplexityIssue(tool).final_score < result.final_score

WithCoverage(cov) ==
  calculate_score(config, changed_files, ruff_data, eslint_data,
                  swiftlint_data, detekt_data, jscpd_data,
                  [test_data EXCEPT !.coverage_percentage = cov], threshold)

(* C10: increasing the coverage percentage, everything else unchanged, never
   decreases final_score. *)
C10_CoverageMonotone ==
  Scored =>
    \A cov \in FullCov :
      cov > test_data.coverage_percentage =>
        WithCoverage(cov).final_score >= result.final_score

(* raising coverage from 19.9 to 20.0 percent strictly raises the score *)
C10_Witness ==
  /\ Scored
  /\ test_data.coverage_percentage = 199
  /\ WithCoverage(200).final_score > result.final_score

(* C11: calculate_score is an operator of its arguments here, as it is a
   function of its arguments in the source (no global, clock, environment or
   mutation of an argument is read or written in lines 326-482); that two
   evaluations on the same arguments agree is then true of any definition
   and is not stated as a formula. *)

(* C13: with zero complexity and smell issues, 0% duplication, coverage 85%,
   20 of 20 tests passed, unit tests found and e2e.required false,
   calculate_score reports code_quality 40/40, test_health 30/30,
   test_presence 20/20, final_score 100 and passed = true. *)
ScenarioB ==
  /\ TotalComplexity = 0
  /\ TotalSmells = 0
  /\ jscpd_data.percentage = 0
  /\ test_data.coverage_percentage = 850
  /\ test_data.tests_passed = 20
  /\ test_data.tests_failed = 0
  /\ test_data.unit_tests_found
  /\ config.e2e_required = "false"

C13_ScenarioB ==
  (Scored /\ ScenarioB) =>
    LET b == result.breakdown
    IN  /\ Tenths(b.code_quality.total) = 400
        /\ b.code_quality.max = 40
        /\ b.test_health.total = 30
        /\ b.test_health.max = 30
        /\ b.test_presence.total = 20
        /\ b.test_presence.max = 20
        /\ result.final_score = 100
        /\ result.passed

(* the scenario with e2e tests found although not required, at the default
   threshold *)
C13_Witness ==
  /\ Scored
  /\ ScenarioB
  /\ test_data.e2e_tests_found
  /\ result.threshold = 70
  /\ result.final_score = 100
  /\ result.passed

CoverageParsed == pc = "coverage_parsed"

Totals(report) ==
  <<report.total_lines, report.covered_lines, report.percentage>>

(* the path of a report entry: the filename of a class, the SF path of an
   LCOV record, the key of an Istanbul entry *)
Respell(path, spelling) == IF path \in Spellings THEN spelling ELSE path

(* the same coverage file with src/app.py written as spelling *)
Respelled(doc, spelling) ==
  [doc EXCEPT !.body =
     [i \in 1..Len(doc.body) |->
        IF doc.format = "xml"
        THEN [doc.body[i] EXCEPT !.filename = Respell(@, spelling)]
        ELSE [doc.body[i] EXCEPT !.path = Respell(@, spelling)]]]

(* C14: with src/app.py in the changed-file list, a report entry written
   ./src/app.py, /abs/repo/src/app.py or app.py is treated as belonging to
   the change set, and each coverage parser (Cobertura, LCOV, Istanbul)
   returns the same total_lines, covered_lines and percentage for the three
   spellings of an otherwise identical report. *)
C14_SpellingsCorrelate ==
  CoverageParsed =>
    \A spelling \in Spellings :
      /\ IsChanged(spelling, ChangedNormalized(changed_files))
      /\ Totals(ParseWith(ParserFor(coverage_docs[1].path),
                          Respelled(coverage_docs[1], spelling),
                          changed_files))
           = Totals(coverage_report)

(* a report that names the file app.py only, one line of two covered; the
   other file of the report is not in the change set *)
C14_Witness ==
  /\ CoverageParsed
  /\ changed_files = <<"src/app.py">>
  /\ coverage_docs[1].format = "json"
  /\ Len(coverage_docs[1].body) = 2
  /\ coverage_docs[1].body[2].path = "app.py"
  /\ Len(coverage_docs[1].body[1].s) = 1
  /\ coverage_report.total_lines = 2
  /\ coverage_report.covered_lines = 1
  /\ coverage_report.percentage = 500
  /\ Len(coverage_report.by_file) = 1

(* an exception left the parser's try block *)
FailsToParse(doc, changed) ==
  IF doc.format = "xml"
  THEN CoberturaLoop(doc.body, ChangedNormalized(changed),
                     Running(CoverageDefault)).raised
  ELSE IF doc.format = "lcov"
  THEN LcovLoop(doc.body, ChangedNormalized(changed), LcovStart).raised
  ELSE IstanbulLoop(doc.body, ChangedNormalized(changed),
                    Running(CoverageDefault)).raised

(* C16: a coverage artifact that fails to parse, also one whose first
   records are well-formed and correlate to changed files and which has a
   later unparsable entry, yields from each coverage parser the all-zero
   record of a missing file: total_lines 0, covered_lines 0, percentage 0.0,
   empty by_file and uncovered_functions. *)
C16_FailedParseIsZero ==
  (CoverageParsed /\ FailsToParse(coverage_docs[1], changed_files)) =>
    coverage_report = CoverageDefault

Tested == pc = "tested"

(* percentage == round(covered / total * 100, 1), or 0.0 without lines *)
PercentageOk(total, covered, percentage) ==
  IF total > 0 THEN percentage = CoveragePercentage(covered, total)
  ELSE percentage = 0

(* C17: every record a coverage parser returns, and the merged coverage
   run_tests reports (coverage_percentage, coverage_total_lines,
   coverage_covered_lines), has for every artifact, well-formed or
   malformed, percentage == round(covered_lines / total_lines * 100, 1)
   when total_lines > 0 and percentage == 0.0 when total_lines == 0. *)
C17_PercentageInvariant ==
  Tested =>
    /\ PercentageOk(coverage_report.total_lines,
                    coverage_report.covered_lines, coverage_report.percentage)
    /\ PercentageOk(tests_doc.coverage_total_lines,
                    tests_doc.coverage_covered_lines,
                    tests_doc.coverage_percentage)

CountsAddUp(r) ==
  r.tests_run = r.tests_passed + r.tests_failed + r.tests_skipped

(* C18: for every text the record parse_test_output returns has
   tests_run == tests_passed + tests_failed + tests_skipped, and so has the
   result of run_tests, with a single tests.command and with any number of
   tests.commands entries summed. *)
C18_TestsRunIsSum ==
  Tested =>
    /\ CountsAddUp(tests_doc)
    /\ \A i \in 1..Len(command_runs) :
         CountsAddUp(parse_test_output(command_runs[i].output))

(* two toolchains, both with skipped tests: 1 + 3 + 2 each *)
C18_Witness ==
  /\ Tested
  /\ Len(command_runs) = 2
  /\ ~load_yaml_safe(config_doc).tests.command
  /\ tests_doc.tests_skipped = 4
  /\ tests_doc.tests_passed = 6
  /\ tests_doc.tests_failed = 2
  /\ tests_doc.tests_run = 12

ToolchainsRun ==
  /\ Tested
  /\ load_yaml_safe(config_doc).tests.enabled
  /\ ~load_yaml_safe(config_doc).tests.command

(* the sum of field over the runs, a run that is not in Counted adding 0 *)
RECURSIVE SumOver(_, _, _)
SumOver(runs, Counted, field) ==
  IF runs = <<>> THEN 0
  ELSE (IF Head(runs).outcome \in Counted
        THEN parse_test_output(Head(runs).output)[field] ELSE 0)
       + SumOver(Tail(runs), Counted, field)

(* C20 as claimed: with several tests.commands entries, a toolchain whose
   subprocess fails (non-zero exit, launch error) or times out adds 0 to
   tests_passed and 0 to tests_failed, every remaining command is still
   run, and the final counts are the sum of the other toolchains' parsed
   counts. *)
C20_FailedToolchainAddsNothing ==
  ToolchainsRun =>
    /\ tests_doc.tests_passed = SumOver(command_runs, {"exit0"}, "tests_passed")
    /\ tests_doc.tests_failed = SumOver(command_runs, {"exit0"}, "tests_failed")

(* C20 as amended: a toolchain whose subprocess times out or cannot be
   started adds 0 to tests_passed and tests_failed; one whose command exits
   non-zero adds the counts parsed from its captured output, like one that
   exits 0; every command is run, and the final counts are the sum over the
   toolchains. *)
C20_LostToolchainAddsNothing ==
  ToolchainsRun =>
    /\ tests_doc.tests_passed =
         SumOver(command_runs, {"exit0", "nonzero"}, "tests_passed")
    /\ tests_doc.tests_failed =
         SumOver(command_runs, {"exit0", "nonzero"}, "tests_failed")

(* the first toolchain times out after printing a summary, the second exits
   non-zero with a failed test: only the second is counted *)
C20_Witness ==
  /\ ToolchainsRun
  /\ Len(command_runs) = 2
  /\ command_runs[1] = Run("timeout", PytestText)
  /\ command_runs[2] = Run("nonzero", JestFailText)
  /\ tests_doc.tests_passed = 2
  /\ tests_doc.tests_failed = 1

(* the inputs of scenario A: no report of a linter, of jscpd or of a
   coverage tool, tests not enabled, e2e not required *)
ScenarioA ==
  /\ lint_docs = NoLintDocs
  /\ coverage_docs = <<>>
  /\ config.kind = "mapping"
  /\ config.e2e = "mapping"
  /\ config.e2e_required # "true"
  /\ config.tests.kind # "null"
  /\ ~config.tests.enabled

(* C12: when no linter, duplication or coverage artifacts are supplied,
   tests.enabled is false and e2e.required is false, run_tests followed by
   calculate_score at threshold 70 reports code_quality 40/40, test_health
   0/30, test_presence 0/20, final_score 44 and passed = false. *)
C12_ScenarioA ==
  (Scored /\ ScenarioA) =>
    LET b == result.breakdown
    IN  /\ Tenths(b.code_quality.total) = 400
        /\ b.code_quality.max = 40
        /\ b.test_health.total = 0
        /\ b.test_health.max = 30
        /\ b.test_presence.total = 0
        /\ b.test_presence.max = 20
        /\ result.threshold = 70
        /\ result.final_score = 44
        /\ ~result.passed

(* C12 as amended: in scenario A the pipeline reports code_quality 40/40,
   test_health 0/30 and passed = false; test_presence is 0/20 and
   final_score 44 when find_test_files discovers no unit-test file, and
   20/20 and 67 when it discovers one, because discovery runs before
   tests.enabled is read and no test has failed. *)
C12_ScenarioAByDiscovery ==
  (Scored /\ ScenarioA) =>
    LET b == result.breakdown
    IN  /\ Tenths(b.code_quality.total) = 400
        /\ b.code_quality.max = 40
        /\ b.test_health.total = 0
        /\ b.test_health.max = 30
        /\ b.test_presence.max = 20
        /\ result.threshold = 70
        /\ ~result.passed
        /\ IF test_files.unit = 0
           THEN b.test_presence.total = 0 /\ result.final_score = 44
           ELSE b.test_presence.total = 20 /\ result.final_score = 67

(* scenario A with tests.enabled: false written in the configuration and a
   repository without test files *)
C12_Witness ==
  /\ Scored
  /\ ScenarioA
  /\ config_doc.syntax = "mapping"
  /\ config_doc.tests.kind = "mapping"
  /\ config_doc.e2e_required = "false"
  /\ test_files = [unit |-> 0, e2e |-> 0]
  /\ tests_doc.exists
  /\ result.breakdown.test_presence.total = 0
  /\ result.final_score = 44

(* C15: every format parser, for every input (absent, empty, or present but
   of an unexpected shape such as a null where an object or list is
   expected), returns a record with every field of its default record and
   never raises. *)
C15_ParsersNeverRaise ==
  /\ pc # "parse_raised"
  /\ pc = "parsed" =>
       /\ \A d \in {ruff_data, eslint_data, swiftlint_data, detekt_data} :
            DOMAIN d = DOMAIN LinterDefault
       /\ DOMAIN jscpd_data = DOMAIN JscpdDefault
       /\ DOMAIN test_data = DOMAIN TestsDefault
  /\ pc = "tested" => DOMAIN coverage_report = DOMAIN CoverageDefault

(* a configuration file that cannot be parsed, or whose document is empty
   or a sequence instead of a mapping *)
MalformedConfig == config_doc.syntax \in {"unparsable", "empty", "sequence"}

(* C19: a malformed quality configuration is treated as the empty
   configuration by both run_tests and calculate_score without raising: no
   test command is executed, and the scores of coverage, test results,
   unit-test presence and e2e are all 0. *)
C19_MalformedConfigIsEmpty ==
  MalformedConfig =>
    /\ pc \notin {"run_tests_raised", "score_raised"}
    /\ tests_doc.exists => tests_doc.tests_run = 0
    /\ Scored =>
         /\ config = ConfigMapping("absent", NoTestsSection)
         /\ result.breakdown.test_health.coverage.score = 0
         /\ result.breakdown.test_health.results.score = 0
         /\ result.breakdown.test_presence.unit_tests.score = 0
         /\ result.breakdown.test_presence.e2e.score \in {0, NA}

(* the SF: and end_of_record lines before line j *)
MarkersBefore(lines, j) ==
  {i \in 1..(j - 1) : lines[i].tag \in {"SF", "end_of_record"}}

(* the line that opened the record line j closes: the nearest SF: or
   end_of_record line before j when that is an SF: line, else 0 *)
OpenedAt(lines, j) ==
  IF MarkersBefore(lines, j) = {} THEN 0
  ELSE IF lines[CHOOSE i \in MarkersBefore(lines, j) :
                  \A k \in MarkersBefore(lines, j) : k <= i].tag = "SF"
  THEN CHOOSE i \in MarkersBefore(lines, j) :
         \A k \in MarkersBefore(lines, j) : k <= i
  ELSE 0

(* the end_of_record lines that close a record of a changed file *)
CommittedRecords(lines, cn) ==
  {j \in 1..Len(lines) :
     /\ lines[j].tag = "end_of_record"
     /\ OpenedAt(lines, j) > 0
     /\ IsChanged(lines[OpenedAt(lines, j)].path, cn)}

(* the DA: lines inside committed records, all of them or the covered ones *)
CommittedDA(lines, cn, covered_only) ==
  {k \in 1..Len(lines) :
     /\ lines[k].tag = "DA"
     /\ covered_only => lines[k].hits.n > 0
     /\ \E j \in CommittedRecords(lines, cn) : OpenedAt(lines, j) < k /\ k < j}

IntegerCounts(lines) ==
  \A k \in 1..Len(lines) : lines[k].tag = "DA" => lines[k].hits.ok

LcovParsed == CoverageParsed /\ coverage_docs[1].format = "lcov"

(* C21: in parse_lcov, for any sequence of SF:, DA: and end_of_record lines
   (the DA: counts being integers), total_lines and covered_lines are the
   numbers of DA: lines, and of DA: lines with a count above 0, of exactly
   the records opened by an SF: line, closed by an end_of_record line and
   whose file correlates to a changed file; DA: lines outside an open
   record, records never closed (one superseded by a second SF: included)
   and records of other files add nothing. *)
C21_CommittedRecordsOnly ==
  (LcovParsed /\ IntegerCounts(coverage_docs[1].body)) =>
    /\ coverage_report.total_lines =
         Cardinality(CommittedDA(coverage_docs[1].body,
                                 ChangedNormalized(changed_files), FALSE))
    /\ coverage_report.covered_lines =
         Cardinality(CommittedDA(coverage_docs[1].body,
                                 ChangedNormalized(changed_files), TRUE))

(* a record with a covered line superseded by a second SF:, whose record
   has one uncovered line and is closed *)
C21_Witness ==
  /\ LcovParsed
  /\ coverage_docs[1].body =
       <<LcovSF("./src/app.py"), LcovDA(Hit(1)), LcovSF("./src/app.py"),
         LcovDA(Hit(0)), LcovEnd>>
  /\ coverage_report.total_lines = 1
  /\ coverage_report.covered_lines = 0

CoberturaParsed == CoverageParsed /\ coverage_docs[1].format = "xml"

(* the (class, method) places of a Cobertura body *)
MethodPlaces(classes) ==
  UNION {{<<c, m>> : m \in 1..Len(classes[c].methods)} :
           c \in 1..Len(classes)}

MethodId(classes, place) ==
  FunctionId(classes[place[1]].filename,
             classes[place[1]].methods[place[2]].line,
             classes[place[1]].methods[place[2]].name)

(* the methods of correlated classes that have a line with hits == 0 *)
FlaggedMethods(classes, cn) ==
  {place \in MethodPlaces(classes) :
     /\ IsChanged(classes[place[1]].filename, cn)
     /\ \E i \in 1..Len(classes[place[1]].methods[place[2]].lines) :
          classes[place[1]].methods[place[2]].lines[i].n = 0}

Occurrences(list, x) == Cardinality({i \in 1..Len(list) : list[i] = x})

(* C22: in parse_cobertura_xml, for every class that correlates to a
   changed file, each method adds at most one uncovered-function
   identifier, of the form file:declared-line (method-name), and adds one
   exactly when at least one of its line elements has hits == 0, however
   many of its lines are uncovered: every identifier occurs once for each
   flagged method that carries it, and nothing else is in the list. *)
C22_OneIdPerUncoveredMethod ==
  CoberturaParsed =>
    /\ Len(coverage_report.uncovered_functions) =
         Cardinality(FlaggedMethods(coverage_docs[1].body,
                                    ChangedNormalized(changed_files)))
    /\ \A place \in MethodPlaces(coverage_docs[1].body) :
         Occurrences(coverage_report.uncovered_functions,
                     MethodId(coverage_docs[1].body, place))
           = Cardinality(
               {q \in FlaggedMethods(coverage_docs[1].body,
                                     ChangedNormalized(changed_files)) :
                  MethodId(coverage_docs[1].body, q)
                    = MethodId(coverage_docs[1].body, place)})

(* a method with two uncovered lines, one without a line attribute and
   fully covered, and a class of another file with an uncovered method *)
C22_Witness ==
  /\ CoberturaParsed
  /\ Len(coverage_docs[1].body) = 2
  /\ coverage_docs[1].body[1].filename = "src/app.py"
  /\ coverage_docs[1].body[1].methods =
       <<[name |-> "load", line |-> "3", lines |-> <<Hit(0), Hit(0)>>],
         [name |-> "save", line |-> "?", lines |-> <<Hit(1)>>]>>
  /\ coverage_docs[1].body[2].filename = OtherPath
  /\ coverage_docs[1].body[2].methods[1].lines = <<Hit(0), Hit(0)>>
  /\ coverage_report.uncovered_functions = <<"src/app.py:3 (load)">>

Parsed == pc = "parsed"

(* the rule codes of the findings a parser accepts (the mappings), in order;
   field is the key the tool's report uses *)
RECURSIVE AcceptedCodes(_, _)
AcceptedCodes(items, field) ==
  IF items = <<>> THEN <<>>
  ELSE (IF Head(items).kind = "mapping" THEN <<Head(items)[field]>> ELSE <<>>)
       \o AcceptedCodes(Tail(items), field)

(* the category of (tool, rule code): exact membership in the tool's set,
   or for ESLint a rule name contained in the rule id *)
IsComplexity(code, rules, substring) ==
  IF substring THEN \E r \in rules : contains(code, r) ELSE code \in rules

(* data files every accepted finding once: under complexity_issues the
   findings of the complexity category, under smell_issues all others *)
Classified(data, codes, rules, substring) ==
  /\ data.total_issues = Len(codes)
  /\ Len(data.complexity_issues) =
       Cardinality({i \in 1..Len(codes) :
                      IsComplexity(codes[i], rules, substring)})
  /\ Len(data.smell_issues) =
       Cardinality({i \in 1..Len(codes) :
                      ~IsComplexity(codes[i], rules, substring)})
  /\ \A i \in 1..Len(data.complexity_issues) :
       IsComplexity(data.complexity_issues[i].code, rules, substring)
  /\ \A i \in 1..Len(data.smell_issues) :
       ~IsComplexity(data.smell_issues[i].code, rules, substring)

(* C23: every finding accepted by a linter parser is placed in exactly one
   of complexity_issues or smell_issues: in complexity_issues iff its rule
   code is in the tool's fixed complexity set (exact membership for Ruff,
   SwiftLint and Detekt; for ESLint iff the rule id contains one of the
   complexity rule names), and in smell_issues otherwise, also for an
   unrecognized, empty or null rule code. *)
C23_OneCategoryPerFinding ==
  (Parsed /\ lint_docs \in FindingDocSets) =>
    /\ Classified(ruff_data, AcceptedCodes(lint_docs.ruff.items, "code"),
                  {"C901", "PLR0915", "PLR0912", "PLR0911"}, FALSE)
    /\ Classified(eslint_data,
                  IF lint_docs.eslint.items = <<>> THEN <<>>
                  ELSE AcceptedCodes(lint_docs.eslint.items[1].messages.items,
                                     "ruleId"),
                  {"complexity", "max-depth", "max-nested-callbacks",
                   "max-lines-per-function"}, TRUE)
    /\ Classified(swiftlint_data,
                  AcceptedCodes(lint_docs.swiftlint.items, "rule_id"),
                  {"cyclomatic_complexity", "function_body_length",
                   "type_body_length", "file_length"}, FALSE)
    /\ Classified(detekt_data,
                  IF lint_docs.detekt.findings.categories = <<>> THEN <<>>
                  ELSE AcceptedCodes(
                         lint_docs.detekt.findings.categories[1].issues,
                         "rule"),
                  {"ComplexMethod", "LongMethod", "LargeClass",
                   "NestedBlockDepth", "CyclomaticComplexMethod"}, FALSE)

(* an ESLint report with a plugin-prefixed complexity rule, a null rule id
   and an entry that is no mapping *)
C23_Witness ==
  /\ Parsed
  /\ lint_docs.eslint.items # <<>>
  /\ AcceptedCodes(lint_docs.eslint.items[1].messages.items, "ruleId")
       = <<"@typescript-eslint/max-depth", NoneText>>
  /\ Len(lint_docs.eslint.items[1].messages.items) = 3
  /\ Len(eslint_data.complexity_issues) = 1
  /\ eslint_data.complexity_issues[1].code = "@typescript-eslint/max-depth"
  /\ Len(eslint_data.smell_issues) = 1
  /\ eslint_data.smell_issues[1].code = ""

TestsConfig == load_yaml_safe(config_doc).tests

(* C24: in run_tests, when tests.enabled is false or absent, no setup
   command and no test command is ever run and no coverage artifact is
   parsed: tests_run, tests_passed, tests_failed, tests_skipped and all
   coverage fields keep their zero defaults, while test-file discovery has
   still been performed. *)
C24_DisabledRunsNothing ==
  (Tested /\ ~TestsConfig.enabled) =>
    /\ ran = <<>>
    /\ coverage_report = CoverageDefault
    /\ tests_doc.tests_run = 0
    /\ tests_doc.tests_passed = 0
    /\ tests_doc.tests_failed = 0
    /\ tests_doc.tests_skipped = 0
    /\ tests_doc.coverage_percentage = 0
    /\ tests_doc.coverage_total_lines = 0
    /\ tests_doc.coverage_covered_lines = 0
    /\ tests_doc.coverage_by_file = <<>>
    /\ tests_doc.uncovered_functions = <<>>
    /\ tests_doc.unit_tests_found = (test_files.unit > 0)
    /\ tests_doc.unit_tests_count = test_files.unit
    /\ tests_doc.e2e_tests_found = (test_files.e2e > 0)
    /\ tests_doc.e2e_tests_count = test_files.e2e

(* tests not enabled although setup commands, a test command and a
   coverage file with lines of the changed file are configured, in a
   repository with test files *)
C24_Witness ==
  /\ Tested
  /\ ~TestsConfig.enabled
  /\ TestsConfig.setup = 2
  /\ TestsConfig.command
  /\ TestsConfig.coverage_file = "coverage.info"
  /\ Len(command_runs) = 1
  /\ test_files = [unit |-> 1, e2e |-> 1]
  /\ tests_doc.unit_tests_found
  /\ tests_doc.tests_run = 0

Counts(r) ==
  <<r.tests_run, r.tests_passed, r.tests_failed, r.tests_skipped>>

(* C25: in run_tests with tests enabled, every tests.setup command is run
   in list order before any test command, and a failing setup command
   prevents neither the later setup commands nor the tests; then if
   tests.command is set only that command is run and tests.commands is
   ignored, otherwise every tests.commands entry is run once and the
   reported counts are the sums of the per-toolchain parsed counts. *)
C25_SetupThenTests ==
  (Tested /\ TestsConfig.enabled) =>
    /\ \A i \in 1..TestsConfig.setup : ran[i] = Call("setup", i)
    /\ IF TestsConfig.command
       THEN /\ Len(ran) = TestsConfig.setup + 1
            /\ ran[Len(ran)] = Call("command", 1)
            /\ Counts(tests_doc) =
                 Counts(parse_test_output(command_runs[1].output))
       ELSE /\ Len(ran) = TestsConfig.setup + TestsConfig.commands
            /\ \A j \in 1..TestsConfig.commands :
                 ran[TestsConfig.setup + j] = Call("commands", j)
            /\ Counts(tests_doc) =
                 <<SumOver(command_runs, {"exit0", "nonzero"}, "tests_run"),
                   SumOver(command_runs, {"exit0", "nonzero"}, "tests_passed"),
                   SumOver(command_runs, {"exit0", "nonzero"}, "tests_failed"),
                   SumOver(command_runs, {"exit0", "nonzero"}, "tests_skipped")>>

(* the first of two setup commands times out; tests.command is set beside
   two tests.commands entries *)
C25_Witness ==
  /\ Tested
  /\ TestsConfig.enabled
  /\ TestsConfig.command
  /\ TestsConfig.commands = 2
  /\ setup_runs = <<Run("timeout", Text(<<>>)), Run("exit0", Text(<<>>))>>
  /\ ran = <<Call("setup", 1), Call("setup", 2), Call("command", 1)>>
  /\ command_runs = <<Run("nonzero", JestFailText)>>
  /\ tests_doc.tests_failed = 1

IsPrefixOf(p, s) == Len(p) <= Len(s) /\ p = SubSeq(s, 1, Len(p))

Preview(p, s, limit) == Len(p) <= limit /\ IsPrefixOf(p, s)

AllComplexityIssues ==
  ruff_data.complexity_issues \o eslint_data.complexity_issues
    \o swiftlint_data.complexity_issues \o detekt_data.complexity_issues

AllSmellIssues ==
  ruff_data.smell_issues \o eslint_data.smell_issues
    \o swiftlint_data.smell_issues \o detekt_data.smell_issues

(* C26: in the breakdown returned by calculate_score the evidence previews
   are bounded (at most 10 complexity issues, 10 smell issues, 5 duplication
   pairs, 10 uncovered functions, 5 failures, 10 unit test files), each is a
   prefix of the full input list in its order, and issues_count and the
   penalty are computed from the full list. *)
C26_PreviewsAreBoundedPrefixes ==
  pc = "scored" =>
    /\ Preview(result.breakdown.code_quality.complexity.issues,
               AllComplexityIssues, 10)
    /\ Preview(result.breakdown.code_quality.smells.issues,
               AllSmellIssues, 10)
    /\ Preview(result.breakdown.code_quality.duplication.duplications,
               jscpd_data.duplications, 5)
    /\ Preview(result.breakdown.test_health.coverage.uncovered_functions,
               test_data.uncovered_functions, 10)
    /\ Preview(result.breakdown.test_health.results.failures,
               test_data.failures_details, 5)
    /\ Preview(result.breakdown.test_presence.unit_tests.files,
               test_data.unit_test_files, 10)
    /\ result.breakdown.code_quality.complexity.issues_count =
         Len(AllComplexityIssues)
    /\ result.breakdown.code_quality.smells.issues_count =
         Len(AllSmellIssues)
    /\ result.breakdown.code_quality.complexity.penalty =
         MinInt(15, 4 * Len(AllComplexityIssues))
    /\ result.breakdown.code_quality.smells.penalty =
         MinInt(15, 3 * Len(AllSmellIssues))

(* every list is longer than its preview, and the twelfth complexity issue,
   ESLint's, is counted but not shown *)
C26_Witness ==
  /\ pc = "scored"
  /\ Len(AllComplexityIssues) = 12
  /\ AllComplexityIssues[12].file = "eslint"
  /\ result.breakdown.code_quality.complexity.issues_count = 12
  /\ Len(result.breakdown.code_quality.complexity.issues) = 10
  /\ Len(jscpd_data.duplications) = 6
  /\ Len(result.breakdown.code_quality.duplication.duplications) = 5
  /\ Len(test_data.failures_details) = 6
  /\ Len(result.breakdown.test_health.results.failures) = 5
  /\ Len(test_data.uncovered_functions) = 11
  /\ Len(result.breakdown.test_health.coverage.uncovered_functions) = 10
  /\ Len(result.breakdown.test_presence.unit_tests.files) = 10

Within(score, max) == score >= 0 /\ score <= max

FWithin(score, max) == ~FLt(score, FZero) /\ ~FGt(score, FFromInt(max))

(* C27: for every input that the parsers can hand to calculate_score (any
   issue lists, any duplication percentage parse_jscpd_results can return,
   below 0 and above 100 included, any test data), every sub-metric score s
   satisfies 0 <= s <= its max, and each category total is between 0 and
   the category max. *)
C27_ScoresWithinMax ==
  pc = "scored" =>
    /\ Within(result.breakdown.code_quality.complexity.score, 15)
    /\ Within(result.breakdown.code_quality.smells.score, 15)
    /\ FWithin(result.breakdown.code_quality.duplication.score, 10)
    /\ FWithin(result.breakdown.code_quality.total, 40)
    /\ Within(result.breakdown.test_health.coverage.score, 20)
    /\ Within(result.breakdown.test_health.results.score, 10)
    /\ Within(result.breakdown.test_health.total, 30)
    /\ Within(result.breakdown.test_presence.unit_tests.score, 20)
    /\ result.breakdown.test_presence.e2e.score # NA =>
         Within(result.breakdown.test_presence.e2e.score, 10)
    /\ Within(result.breakdown.test_presence.total,
              result.breakdown.test_presence.max)

(* the records of an LCOV file in which every SF: is closed by an
   end_of_record: file and hit counts *)
RECURSIVE RecordsOf(_, _, _)
RecordsOf(lines, path, hits) ==
  IF lines = <<>> THEN <<>>
  ELSE IF Head(lines).tag = "SF" THEN RecordsOf(Tail(lines), Head(lines).path, <<>>)
  ELSE IF Head(lines).tag = "DA"
  THEN RecordsOf(Tail(lines), path, Append(hits, Head(lines).hits))
  ELSE <<FileEntry(path, hits)>> \o RecordsOf(Tail(lines), "", <<>>)

(* the entries of a coverage artifact: classes, records or files *)
ReportOf(doc) ==
  IF doc.format = "xml"
  THEN [i \in 1..Len(doc.body) |->
          FileEntry(doc.body[i].filename, ClassLines(doc.body[i]))]
  ELSE IF doc.format = "json"
  THEN [i \in 1..Len(doc.body) |-> FileEntry(doc.body[i].path, doc.body[i].s)]
  ELSE IF doc.format = "lcov" THEN RecordsOf(doc.body, "", <<>>)
  ELSE <<>>

(* the changed files an entry correlates with *)
CorrelatesWith(path, changed) ==
  {i \in 1..Len(changed) : IsChanged(path, {normpath(changed[i])})}

(* the entries with lines that correlate with some changed file *)
Added(report, changed) ==
  {i \in 1..Len(report) :
     CorrelatesWith(report[i].path, changed) # {} /\ Len(report[i].hits) > 0}

RECURSIVE SumAdded(_, _, _, _)
SumAdded(report, changed, i, covered_only) ==
  IF i > Len(report) THEN 0
  ELSE (IF i \in Added(report, changed)
        THEN (IF covered_only THEN CountCovered(report[i].hits)
              ELSE Len(report[i].hits))
        ELSE 0)
       + SumAdded(report, changed, i + 1, covered_only)

ByFileCount(path) ==
  Cardinality({k \in 1..Len(coverage_report.by_file) :
                 coverage_report.by_file[k].file = path})

WellFormed(report) == \A i \in 1..Len(report) : AllOk(report[i].hits)

(* C28: in each coverage parser, a report entry that correlates with more
   than one changed file is added to total_lines, covered_lines and by_file
   exactly once, and an entry that correlates with no changed file is never
   added; when the changed-file list is empty every coverage parser returns
   the all-zero record for any artifact.  For a report whose hit counts are
   integers: by_file holds one record for every entry with lines that
   correlates with at least one changed file and no other record, and the
   totals are the sums over those entries; for any artifact, no record of
   by_file is of a file that correlates with no changed file. *)
C28_EntryAddedOnce ==
  CoverageParsed =>
    /\ changed_files = <<>> => coverage_report = CoverageDefault
    /\ \A k \in 1..Len(coverage_report.by_file) :
         CorrelatesWith(coverage_report.by_file[k].file, changed_files) # {}
    /\ \A path \in ReportedPaths :
         ByFileCount(path) <= 1
    /\ WellFormed(ReportOf(coverage_docs[1])) =>
         /\ \A i \in 1..Len(ReportOf(coverage_docs[1])) :
              ByFileCount(ReportOf(coverage_docs[1])[i].path) =
                IF i \in Added(ReportOf(coverage_docs[1]), changed_files)
                THEN 1 ELSE 0
         /\ coverage_report.total_lines =
              SumAdded(ReportOf(coverage_docs[1]), changed_files, 1, FALSE)
         /\ coverage_report.covered_lines =
              SumAdded(ReportOf(coverage_docs[1]), changed_files, 1, TRUE)

(* app.py with two lines correlates with both changed files and is added
   once; docs/readme.md correlates with neither and is not added *)
C28_Witness ==
  /\ CoverageParsed
  /\ changed_files = <<"src/app.py", "lib/app.py">>
  /\ ReportOf(coverage_docs[1]) =
       <<FileEntry("docs/readme.md", <<Hit(1)>>),
         FileEntry("app.py", <<Hit(0), Hit(1)>>)>>
  /\ CorrelatesWith("app.py", changed_files) = {1, 2}
  /\ CorrelatesWith("docs/readme.md", changed_files) = {}
  /\ coverage_report.total_lines = 2
  /\ coverage_report.covered_lines = 1
  /\ Len(coverage_report.by_file) = 1
  /\ coverage_report.by_file[1].file = "app.py"

(* the coverage files run_tests is configured to read *)
ConfiguredFiles ==
  (IF TestsConfig.coverage_file # "" THEN <<TestsConfig.coverage_file>>
   ELSE <<>>) \o TestsConfig.coverage_files

ByExtension(path) ==
  IF endswith(path, ".xml") THEN "cobertura"
  ELSE IF endswith(path, ".info") THEN "lcov"
  ELSE IF endswith(path, ".json") THEN "istanbul"
  ELSE "none"

ByExtensionOrName(path) ==
  IF endswith(path, ".xml") THEN "cobertura"
  ELSE IF endswith(path, ".info") \/ contains(path, "lcov") THEN "lcov"
  ELSE IF endswith(path, ".json") THEN "istanbul"
  ELSE "none"

Chosen(rule, path) ==
  IF rule = "extension" THEN ByExtension(path) ELSE ByExtensionOrName(path)

(* the lines (covered lines) the files hold for the parsers the rule names *)
RECURSIVE LinesRead(_, _, _)
LinesRead(rule, paths, field) ==
  IF paths = <<>> THEN 0
  ELSE ParseWith(Chosen(rule, Head(paths)), DocAt(coverage_docs, Head(paths)),
                 changed_files)[field]
       + LinesRead(rule, Tail(paths), field)

ReadBy(rule) ==
  /\ tests_doc.coverage_total_lines =
       LinesRead(rule, ConfiguredFiles, "total_lines")
  /\ tests_doc.coverage_covered_lines =
       LinesRead(rule, ConfiguredFiles, "covered_lines")

(* C29 as claimed: in run_tests the parser used for a coverage artifact is
   determined by its file extension alone, for tests.coverage_file and every
   tests.coverage_files entry: .xml is always parsed as Cobertura XML, .info
   as LCOV and .json as Istanbul JSON, whatever else the path contains. *)
C29_ExtensionAlone ==
  (/\ Tested
   /\ TestsConfig.enabled
   /\ \A i \in 1..Len(ConfiguredFiles) :
        ByExtension(ConfiguredFiles[i]) # "none") => ReadBy("extension")

(* C29: in run_tests, for tests.coverage_file and every tests.coverage_files
   entry, a path ending in .xml is parsed as Cobertura XML; any other path
   that ends in .info or contains "lcov" is parsed as LCOV, a path ending
   in .json included; any other path ending in .json is parsed as Istanbul
   JSON; any other path is not parsed. *)
C29_ExtensionThenLcovName ==
  (Tested /\ TestsConfig.enabled) => ReadBy("name")

(* lcov-report/coverage.json holds LCOV records and is read as the main
   coverage file; coverage.json holds Istanbul JSON and is a
   tests.coverage_files entry: two lines from each *)
C29_Witness ==
  /\ Tested
  /\ TestsConfig.coverage_file = "lcov-report/coverage.json"
  /\ DocAt(coverage_docs, "lcov-report/coverage.json").format = "lcov"
  /\ TestsConfig.coverage_files = <<"coverage.json">>
  /\ DocAt(coverage_docs, "coverage.json").format = "json"
  /\ tests_doc.coverage_total_lines = 4
  /\ tests_doc.coverage_covered_lines = 2

(* C30: for every stdout/stderr text, the failures list returned by
   parse_test_output contains at most 5 identifiers, whichever combination
   of the three failure-line conventions appears in the text. *)
C30_AtMostFiveFailures ==
  \A i \in 1..Len(command_runs) :
    Len(parse_test_output(command_runs[i].output).failures) <= 5

====
